---- MODULE Spec2Model ----
(***************************************************************************)
(* A model of the zellij server's pane layout engine (Tab, tab.rs), of    *)
(* the terminal grid of one pane (Grid, panes/grid.rs) and of the tabs of  *)
(* the screen (Screen, screen.rs), and of the threads and queues of a      *)
(* session (lib.rs).                                                       *)
(*                                                                         *)
(* Rust's Option<T> is modelled as a set with at most one element.         *)
(* Vec indices are 0-based in the source and 1-based in TLA+ sequences;    *)
(* the sequence helpers below take the source's 0-based indices.           *)
(***************************************************************************)
EXTENDS Integers, Sequences, FiniteSets, TLC

VARIABLES tab, next_pid, last, grid, nops, screen, session

vars == <<tab, next_pid, last, grid, nops, screen, session>>

None == {}

Some(x) == {x}

Unwrap(o) == CHOOSE x \in o : TRUE

Min(a, b) == IF a <= b THEN a ELSE b

Max(a, b) == IF a >= b THEN a ELSE b

(***************************************************************************)
(* Bounds of the exploration.                                              *)
(***************************************************************************)
MaxPid == 5

MaxTabOps == 7

\* the instructions handled in one behaviour of the focus and fullscreen machines
MaxFocusOps == 5

\* the tabs a screen holds at once
MaxTabs == 3

\* the instructions waiting in the screen thread's queue at once
MaxBacklog == 2

\* the steps of input to a grid with a scroll region
MaxRegionOps == 7

\* the steps of input and scrolling in a grid the user scrolls
MaxScrollOps == 6

\* the largest max_panes a tab is given
MaxPaneLimit == 3

(***************************************************************************)
(* Tab: constants and rectangle splitting (tab.rs).                        *)
(***************************************************************************)
CURSOR_HEIGHT_WIDTH_RATIO == 4

MIN_TERMINAL_HEIGHT == 3

MIN_TERMINAL_WIDTH == 4

\* The client's terminal is 80 columns by 24 rows.
full_screen_ws == [x |-> 0, y |-> 0, columns |-> 80, rows |-> 24]

split_vertically_first_columns_gave_right(rect) ==
    (rect.columns - 1) \div 2

split_vertically_first_columns(rect) ==
    IF rect.columns % 2 = 0
    THEN ((rect.columns - 1) \div 2) + 1
    ELSE (rect.columns - 1) \div 2

split_vertically_with_gap(rect) ==
    LET width_of_each_half == (rect.columns - 1) \div 2
        first_rect == [rect EXCEPT !.columns = split_vertically_first_columns(rect)]
        second_rect == [rect EXCEPT !.x = first_rect.x + first_rect.columns + 1,
                                    !.columns = width_of_each_half]
    IN  <<first_rect, second_rect>>

split_horizontally_first_rows_gave_bottom(rect) ==
    (rect.rows - 1) \div 2

split_horizontally_first_rows(rect) ==
    IF rect.rows % 2 = 0
    THEN ((rect.rows - 1) \div 2) + 1
    ELSE (rect.rows - 1) \div 2

split_horizontally_with_gap(rect) ==
    LET height_of_each_half == (rect.rows - 1) \div 2
        first_rect == [rect EXCEPT !.rows = split_horizontally_first_rows(rect)]
        second_rect == [rect EXCEPT !.y = first_rect.y + first_rect.rows + 1,
                                    !.rows = height_of_each_half]
    IN  <<first_rect, second_rect>>

(***************************************************************************)
(* A pane is its position and size plus the selectable flag.  The panes of *)
(* a tab are a function from pane id to pane (BTreeMap<PaneId, Pane>);     *)
(* iteration is in ascending id order.  x, y, columns and rows are what    *)
(* the accessors return; while a fullscreen override is in place, base     *)
(* keeps the position and size the override hides.  active_at orders the   *)
(* panes by the last time each was rendered as the active pane: only the   *)
(* order of the Instants is kept, as ranks from 1, and a pane that has     *)
(* not been rendered yet has rank 0.                                       *)
(***************************************************************************)
TerminalPane_new(ws) ==
    [x |-> ws.x, y |-> ws.y, columns |-> ws.columns, rows |-> ws.rows,
     selectable |-> TRUE, base |-> None, active_at |-> 0]

position_and_size(p) == [x |-> p.x, y |-> p.y, columns |-> p.columns, rows |-> p.rows]

\* The geometry setters act on the position and size the pane has without
\* its override: WithoutOverride is the pane seen that way, and Override
\* puts the outcome of a setter back under the override, if there is one.
WithoutOverride(p) ==
    IF p.base = None THEN p
    ELSE [p EXCEPT !.x = Unwrap(p.base).x, !.y = Unwrap(p.base).y,
                   !.columns = Unwrap(p.base).columns, !.rows = Unwrap(p.base).rows]

Override(p, set) ==
    IF p.base = None THEN set ELSE [p EXCEPT !.base = Some(position_and_size(set))]

change_pos_and_size(p, ws) ==
    Override(p, [WithoutOverride(p) EXCEPT !.x = ws.x, !.y = ws.y,
                                           !.columns = ws.columns, !.rows = ws.rows])

get_pane_ids(t) == DOMAIN t.panes

has_panes(t) == DOMAIN t.panes # {}

insert_pane(t, pid, p) ==
    [t EXCEPT !.panes = [q \in (DOMAIN t.panes) \cup {pid} |->
                            IF q = pid THEN p ELSE t.panes[q]]]

remove_pane(t, pid) ==
    [t EXCEPT !.panes = [q \in (DOMAIN t.panes) \ {pid} |-> t.panes[q]]]

send_to_pty_ClosePane_twice(t, pid) ==
    [t EXCEPT !.closed_ptys = Append(Append(@, pid), pid)]

send_to_pty_ClosePane(t, pid) ==
    [t EXCEPT !.closed_ptys = Append(@, pid)]

Tab_new ==
    [panes |-> [q \in {1} |-> TerminalPane_new(full_screen_ws)],
     panes_to_hide |-> {},
     active_terminal |-> Some(1),
     fullscreen_is_active |-> FALSE,
     synchronize_is_active |-> FALSE,
     max_panes |-> None,
     closed_ptys |-> <<>>,
     written_to_tty_stdin |-> <<>>,
     session_state |-> "Attached",
     rendered |-> FALSE,
     closed |-> FALSE,
     fault |-> "none"]

\* a screen without tabs, as Screen::new makes it
Screen_new ==
    [tabs |-> <<>>, active_tab_index |-> None, closed_tabs |-> <<>>,
     session_state |-> "Attached", to_server |-> <<>>, fault |-> "none",
     grids |-> <<>>]

\* no session has started
NoSession == <<>>

\* the screen is left alone while one tab or one grid is exercised
ScreenIdle == screen = Screen_new /\ session = NoSession

Live(t) == t.fault = "none" /\ ~t.closed

Panic(t) == IF t.fault = "none" THEN [t EXCEPT !.fault = "panic"] ELSE t

Underflow(t) == IF t.fault = "none" THEN [t EXCEPT !.fault = "underflow"] ELSE t

(***************************************************************************)
(* Tab::render (tab.rs 721-790).  The session is attached.  Of the state   *)
(* kept here a render changes one thing: the active pane, unless hidden,   *)
(* is stamped with the current Instant, which is later than every stamp    *)
(* given before.  The frame holds the panes that are not hidden.           *)
(***************************************************************************)
set_active_at_now(t, id) ==
    [t EXCEPT !.panes = [q \in DOMAIN t.panes |->
        [t.panes[q] EXCEPT !.active_at =
            IF q = id THEN Cardinality(DOMAIN t.panes)
            ELSE 1 + Cardinality({r \in DOMAIN t.panes \ {id} :
                                     t.panes[r].active_at < t.panes[q].active_at})]]]

rendered_panes(t) == DOMAIN t.panes \ t.panes_to_hide

\* a Render has been sent to the server since the flag was last cleared
send_to_server_Render(t) == [t EXCEPT !.rendered = TRUE]

render(t) ==
    IF t.fault # "none" \/ t.active_terminal = None THEN t
    ELSE IF t.session_state # "Attached" THEN t
    ELSE IF Unwrap(t.active_terminal) \in rendered_panes(t)
    THEN send_to_server_Render(set_active_at_now(t, Unwrap(t.active_terminal)))
    ELSE send_to_server_Render(t)

(***************************************************************************)
(* Helpers for Vec<PaneId>: folds and stable sorts over pane id lists.     *)
(***************************************************************************)
FoldSeq(Op(_, _), base, s) ==
    LET f[i \in 0..Len(s)] == IF i = 0 THEN base ELSE Op(f[i - 1], s[i])
    IN  f[Len(s)]

RECURSIVE SortedBy(_, _)
SortedBy(S, key) ==
    IF S = {} THEN <<>>
    ELSE LET m == CHOOSE a \in S :
                    \A b \in S : key[a] < key[b] \/ (key[a] = key[b] /\ a <= b)
         IN  <<m>> \o SortedBy(S \ {m}, key)

IdsInOrder(S) == SortedBy(S, [q \in S |-> q])

Range(s) == {s[i] : i \in 1..Len(s)}

OptionOfIds(ids) == IF ids = <<>> THEN None ELSE Some(ids)

(***************************************************************************)
(* Neighbour queries (tab.rs 809-907).                                     *)
(***************************************************************************)
next_active_pane_from_the_front(t, panes) ==
    LET sel == SelectSeq(panes, LAMBDA pid : t.panes[pid].selectable)
    IN  IF sel = <<>> THEN None ELSE Some(sel[1])

next_active_pane(t, panes) ==
    LET sel == SelectSeq(panes, LAMBDA pid : t.panes[pid].selectable)
    IN  IF sel = <<>> THEN None ELSE Some(sel[Len(sel)])

pane_ids_directly_left_of(t, id) ==
    LET terminal_to_check == t.panes[id]
    IN  IF terminal_to_check.x = 0 THEN None
        ELSE OptionOfIds(IdsInOrder({pid \in DOMAIN t.panes :
                t.panes[pid].x + t.panes[pid].columns = terminal_to_check.x - 1}))

pane_ids_directly_right_of(t, id) ==
    LET terminal_to_check == t.panes[id]
    IN  OptionOfIds(IdsInOrder({pid \in DOMAIN t.panes :
            t.panes[pid].x = terminal_to_check.x + terminal_to_check.columns + 1}))

pane_ids_directly_below(t, id) ==
    LET terminal_to_check == t.panes[id]
    IN  OptionOfIds(IdsInOrder({pid \in DOMAIN t.panes :
            t.panes[pid].y = terminal_to_check.y + terminal_to_check.rows + 1}))

pane_ids_directly_above(t, id) ==
    LET terminal_to_check == t.panes[id]
    IN  OptionOfIds(IdsInOrder({pid \in DOMAIN t.panes :
            t.panes[pid].y + t.panes[pid].rows + 1 = terminal_to_check.y}))

panes_top_aligned_with_pane(t, id) ==
    {pid \in DOMAIN t.panes : pid # id /\ t.panes[pid].y = t.panes[id].y}

panes_bottom_aligned_with_pane(t, id) ==
    {pid \in DOMAIN t.panes :
        pid # id /\ t.panes[pid].y + t.panes[pid].rows = t.panes[id].y + t.panes[id].rows}

panes_right_aligned_with_pane(t, id) ==
    {pid \in DOMAIN t.panes :
        pid # id
        /\ t.panes[pid].x + t.panes[pid].columns = t.panes[id].x + t.panes[id].columns}

panes_left_aligned_with_pane(t, id) ==
    {pid \in DOMAIN t.panes : pid # id /\ t.panes[pid].x = t.panes[id].x}

(***************************************************************************)
(* The four loops shared by the *_aligned_contiguous_panes_* functions:    *)
(* the candidates sorted along one axis, and the chain of panes each       *)
(* directly adjacent to the previous one, starting from the pane itself.   *)
(***************************************************************************)
sort_by_key_y(t, S) == SortedBy(S, [q \in S |-> t.panes[q].y])

sort_by_key_Reverse_y(t, S) == SortedBy(S, [q \in S |-> 0 - t.panes[q].y])

sort_by_key_x(t, S) == SortedBy(S, [q \in S |-> t.panes[q].x])

sort_by_key_Reverse_x(t, S) == SortedBy(S, [q \in S |-> 0 - t.panes[q].x])

LastOr(terminals, id) == IF terminals = <<>> THEN id ELSE terminals[Len(terminals)]

contiguous_above(t, id, sorted) ==
    FoldSeq(LAMBDA terminals, pid :
                IF t.panes[pid].y + t.panes[pid].rows + 1 = t.panes[LastOr(terminals, id)].y
                THEN Append(terminals, pid) ELSE terminals,
            <<>>, sorted)

contiguous_below(t, id, sorted) ==
    FoldSeq(LAMBDA terminals, pid :
                IF t.panes[pid].y = t.panes[LastOr(terminals, id)].y
                                      + t.panes[LastOr(terminals, id)].rows + 1
                THEN Append(terminals, pid) ELSE terminals,
            <<>>, sorted)

contiguous_to_the_left(t, id, sorted) ==
    FoldSeq(LAMBDA terminals, pid :
                IF t.panes[pid].x + t.panes[pid].columns + 1 = t.panes[LastOr(terminals, id)].x
                THEN Append(terminals, pid) ELSE terminals,
            <<>>, sorted)

contiguous_to_the_right(t, id, sorted) ==
    FoldSeq(LAMBDA terminals, pid :
                IF t.panes[pid].x = t.panes[LastOr(terminals, id)].x
                                      + t.panes[LastOr(terminals, id)].columns + 1
                THEN Append(terminals, pid) ELSE terminals,
            <<>>, sorted)

top_resize_border_of(t, terminals, borders) ==
    FoldSeq(LAMBDA top_resize_border, pid :
                LET bottom_terminal_boundary == t.panes[pid].y + t.panes[pid].rows
                IN  IF (bottom_terminal_boundary + 1) \in borders
                       /\ top_resize_border < bottom_terminal_boundary
                    THEN bottom_terminal_boundary + 1 ELSE top_resize_border,
            0, terminals)

bottom_resize_border_of(t, terminals, borders) ==
    FoldSeq(LAMBDA bottom_resize_border, pid :
                LET top_terminal_boundary == t.panes[pid].y
                IN  IF top_terminal_boundary \in borders
                       /\ top_terminal_boundary < bottom_resize_border
                    THEN top_terminal_boundary ELSE bottom_resize_border,
            full_screen_ws.rows, terminals)

left_resize_border_of(t, terminals, borders) ==
    FoldSeq(LAMBDA left_resize_border, pid :
                LET right_terminal_boundary == t.panes[pid].x + t.panes[pid].columns
                IN  IF (right_terminal_boundary + 1) \in borders
                       /\ left_resize_border < right_terminal_boundary
                    THEN right_terminal_boundary + 1 ELSE left_resize_border,
            0, terminals)

right_resize_border_of(t, terminals, borders) ==
    FoldSeq(LAMBDA right_resize_border, pid :
                LET left_terminal_boundary == t.panes[pid].x
                IN  IF left_terminal_boundary \in borders
                       /\ right_resize_border > left_terminal_boundary
                    THEN left_terminal_boundary ELSE right_resize_border,
            full_screen_ws.columns, terminals)

(***************************************************************************)
(* BorderAndPaneIds: <<border, pane ids>> (tab.rs 908-1240).               *)
(***************************************************************************)
right_aligned_contiguous_panes_above(t, id, terminal_borders_to_the_right) ==
    LET chain == contiguous_above(t, id,
                    sort_by_key_Reverse_y(t, panes_right_aligned_with_pane(t, id)))
        top_resize_border == top_resize_border_of(t, chain, terminal_borders_to_the_right)
        terminals == SelectSeq(chain, LAMBDA q : t.panes[q].y >= top_resize_border)
    IN  <<IF terminals = <<>> THEN t.panes[id].y ELSE top_resize_border, terminals>>

right_aligned_contiguous_panes_below(t, id, terminal_borders_to_the_right) ==
    LET chain == contiguous_below(t, id,
                    sort_by_key_y(t, panes_right_aligned_with_pane(t, id)))
        bottom_resize_border ==
            bottom_resize_border_of(t, chain, terminal_borders_to_the_right)
        terminals == SelectSeq(chain,
                        LAMBDA q : t.panes[q].y + t.panes[q].rows <= bottom_resize_border)
    IN  <<IF terminals = <<>> THEN t.panes[id].y + t.panes[id].rows
          ELSE bottom_resize_border, terminals>>

left_aligned_contiguous_panes_above(t, id, terminal_borders_to_the_left) ==
    LET chain == contiguous_above(t, id,
                    sort_by_key_Reverse_y(t, panes_left_aligned_with_pane(t, id)))
        top_resize_border == top_resize_border_of(t, chain, terminal_borders_to_the_left)
        terminals == SelectSeq(chain, LAMBDA q : t.panes[q].y >= top_resize_border)
    IN  <<IF terminals = <<>> THEN t.panes[id].y ELSE top_resize_border, terminals>>

left_aligned_contiguous_panes_below(t, id, terminal_borders_to_the_left) ==
    LET chain == contiguous_below(t, id,
                    sort_by_key_y(t, panes_left_aligned_with_pane(t, id)))
        bottom_resize_border ==
            bottom_resize_border_of(t, chain, terminal_borders_to_the_left)
        terminals == SelectSeq(chain,
                        LAMBDA q : t.panes[q].y + t.panes[q].rows <= bottom_resize_border)
    IN  <<IF terminals = <<>> THEN t.panes[id].y + t.panes[id].rows
          ELSE bottom_resize_border, terminals>>

top_aligned_contiguous_panes_to_the_left(t, id, terminal_borders_above) ==
    LET chain == contiguous_to_the_left(t, id,
                    sort_by_key_Reverse_x(t, panes_top_aligned_with_pane(t, id)))
        left_resize_border == left_resize_border_of(t, chain, terminal_borders_above)
        terminals == SelectSeq(chain, LAMBDA q : t.panes[q].x >= left_resize_border)
    IN  <<IF terminals = <<>> THEN t.panes[id].x ELSE left_resize_border, terminals>>

top_aligned_contiguous_panes_to_the_right(t, id, terminal_borders_above) ==
    LET chain == contiguous_to_the_right(t, id,
                    sort_by_key_x(t, panes_top_aligned_with_pane(t, id)))
        right_resize_border == right_resize_border_of(t, chain, terminal_borders_above)
        terminals == SelectSeq(chain,
                        LAMBDA q : t.panes[q].x + t.panes[q].columns <= right_resize_border)
    IN  <<IF terminals = <<>> THEN t.panes[id].x + t.panes[id].columns
          ELSE right_resize_border, terminals>>

bottom_aligned_contiguous_panes_to_the_left(t, id, terminal_borders_below) ==
    LET chain == contiguous_to_the_left(t, id,
                    sort_by_key_Reverse_x(t, panes_bottom_aligned_with_pane(t, id)))
        left_resize_border == left_resize_border_of(t, chain, terminal_borders_below)
        terminals == SelectSeq(chain, LAMBDA q : t.panes[q].x >= left_resize_border)
    IN  <<IF terminals = <<>> THEN t.panes[id].x ELSE left_resize_border, terminals>>

bottom_aligned_contiguous_panes_to_the_right(t, id, terminal_borders_below) ==
    LET chain == contiguous_to_the_right(t, id,
                    sort_by_key_x(t, panes_bottom_aligned_with_pane(t, id)))
        right_resize_border == right_resize_border_of(t, chain, terminal_borders_below)
        terminals == SelectSeq(chain,
                        LAMBDA q : t.panes[q].x + t.panes[q].columns <= right_resize_border)
    IN  <<IF terminals = <<>> THEN t.panes[id].x + t.panes[id].columns
          ELSE right_resize_border, terminals>>

(***************************************************************************)
(* Geometry mutators of a pane (declared in the Pane trait, tab.rs         *)
(* 118-129; implemented by TerminalPane).  A usize subtraction below zero  *)
(* panics in a debug build and wraps to a huge value in a release build;   *)
(* both outcomes are recorded as the fault "underflow" of the tab, which   *)
(* keeps the pane's last in-range rectangle.                               *)
(***************************************************************************)
reduce_height_down(p, count) ==
    Override(p, [WithoutOverride(p) EXCEPT !.y = @ + count, !.rows = @ - count])

increase_height_down(p, count) ==
    Override(p, [WithoutOverride(p) EXCEPT !.rows = @ + count])

increase_height_up(p, count) ==
    Override(p, [WithoutOverride(p) EXCEPT !.y = @ - count, !.rows = @ + count])

reduce_height_up(p, count) ==
    Override(p, [WithoutOverride(p) EXCEPT !.rows = @ - count])

reduce_width_right(p, count) ==
    Override(p, [WithoutOverride(p) EXCEPT !.x = @ + count, !.columns = @ - count])

reduce_width_left(p, count) ==
    Override(p, [WithoutOverride(p) EXCEPT !.columns = @ - count])

increase_width_left(p, count) ==
    Override(p, [WithoutOverride(p) EXCEPT !.x = @ - count, !.columns = @ + count])

increase_width_right(p, count) ==
    Override(p, [WithoutOverride(p) EXCEPT !.columns = @ + count])

Underflows(p) ==
    \/ p.x < 0 \/ p.y < 0 \/ p.columns < 0 \/ p.rows < 0
    \/ \E b \in p.base : b.x < 0 \/ b.y < 0 \/ b.columns < 0 \/ b.rows < 0

set_pane(t, id, p) ==
    IF Underflows(p) THEN Underflow(t) ELSE [t EXCEPT !.panes[id] = p]

reduce_pane_height_down(t, id, count) ==
    set_pane(t, id, reduce_height_down(t.panes[id], count))

reduce_pane_height_up(t, id, count) ==
    set_pane(t, id, reduce_height_up(t.panes[id], count))

increase_pane_height_down(t, id, count) ==
    set_pane(t, id, increase_height_down(t.panes[id], count))

increase_pane_height_up(t, id, count) ==
    set_pane(t, id, increase_height_up(t.panes[id], count))

increase_pane_width_right(t, id, count) ==
    set_pane(t, id, increase_width_right(t.panes[id], count))

increase_pane_width_left(t, id, count) ==
    set_pane(t, id, increase_width_left(t.panes[id], count))

reduce_pane_width_right(t, id, count) ==
    set_pane(t, id, reduce_width_right(t.panes[id], count))

reduce_pane_width_left(t, id, count) ==
    set_pane(t, id, reduce_width_left(t.panes[id], count))

pane_is_between_vertical_borders(t, id, left_border_x, right_border_x) ==
    t.panes[id].x >= left_border_x /\ t.panes[id].x + t.panes[id].columns <= right_border_x

pane_is_between_horizontal_borders(t, id, top_border_y, bottom_border_y) ==
    t.panes[id].y >= top_border_y /\ t.panes[id].y + t.panes[id].rows <= bottom_border_y

(***************************************************************************)
(* Resizing a pane together with its surroundings (tab.rs 1353-1548).      *)
(***************************************************************************)
ForEach(t, ids, Op(_, _, _), count) ==
    FoldSeq(LAMBDA acc, q : Op(acc, q, count), t, ids)

reduce_pane_and_surroundings_up(t, id, count) ==
    IF pane_ids_directly_below(t, id) = None THEN Panic(t)
    ELSE
    LET terminals_below == Unwrap(pane_ids_directly_below(t, id))
        terminal_borders == {t.panes[q].x : q \in Range(terminals_below)}
        first == bottom_aligned_contiguous_panes_to_the_left(t, id, terminal_borders)
        second == bottom_aligned_contiguous_panes_to_the_right(t, id, terminal_borders)
        left_resize_border == first[1]
        right_resize_border == second[1]
        retained == SelectSeq(terminals_below,
                        LAMBDA q : pane_is_between_vertical_borders(t, q, left_resize_border, right_resize_border))
        t1 == reduce_pane_height_up(t, id, count)
        t2 == ForEach(t1, retained, increase_pane_height_up, count)
    IN  ForEach(t2, first[2] \o second[2], reduce_pane_height_up, count)

reduce_pane_and_surroundings_down(t, id, count) ==
    IF pane_ids_directly_above(t, id) = None THEN Panic(t)
    ELSE
    LET terminals_above == Unwrap(pane_ids_directly_above(t, id))
        terminal_borders == {t.panes[q].x : q \in Range(terminals_above)}
        first == top_aligned_contiguous_panes_to_the_left(t, id, terminal_borders)
        second == top_aligned_contiguous_panes_to_the_right(t, id, terminal_borders)
        left_resize_border == first[1]
        right_resize_border == second[1]
        retained == SelectSeq(terminals_above,
                        LAMBDA q : pane_is_between_vertical_borders(t, q, left_resize_border, right_resize_border))
        t1 == reduce_pane_height_down(t, id, count)
        t2 == ForEach(t1, retained, increase_pane_height_down, count)
    IN  ForEach(t2, first[2] \o second[2], reduce_pane_height_down, count)

reduce_pane_and_surroundings_right(t, id, count) ==
    IF pane_ids_directly_left_of(t, id) = None THEN Panic(t)
    ELSE
    LET terminals_to_the_left == Unwrap(pane_ids_directly_left_of(t, id))
        terminal_borders == {t.panes[q].y : q \in Range(terminals_to_the_left)}
        first == left_aligned_contiguous_panes_above(t, id, terminal_borders)
        second == left_aligned_contiguous_panes_below(t, id, terminal_borders)
        top_resize_border == first[1]
        bottom_resize_border == second[1]
        retained == SelectSeq(terminals_to_the_left,
                        LAMBDA q : pane_is_between_horizontal_borders(t, q, top_resize_border, bottom_resize_border))
        t1 == reduce_pane_width_right(t, id, count)
        t2 == ForEach(t1, retained, increase_pane_width_right, count)
    IN  ForEach(t2, first[2] \o second[2], reduce_pane_width_right, count)

reduce_pane_and_surroundings_left(t, id, count) ==
    IF pane_ids_directly_right_of(t, id) = None THEN Panic(t)
    ELSE
    LET terminals_to_the_right == Unwrap(pane_ids_directly_right_of(t, id))
        terminal_borders == {t.panes[q].y : q \in Range(terminals_to_the_right)}
        first == right_aligned_contiguous_panes_above(t, id, terminal_borders)
        second == right_aligned_contiguous_panes_below(t, id, terminal_borders)
        top_resize_border == first[1]
        bottom_resize_border == second[1]
        retained == SelectSeq(terminals_to_the_right,
                        LAMBDA q : pane_is_between_horizontal_borders(t, q, top_resize_border, bottom_resize_border))
        t1 == reduce_pane_width_left(t, id, count)
        t2 == ForEach(t1, retained, increase_pane_width_left, count)
    IN  ForEach(t2, first[2] \o second[2], reduce_pane_width_left, count)

increase_pane_and_surroundings_up(t, id, count) ==
    IF pane_ids_directly_above(t, id) = None THEN Panic(t)
    ELSE
    LET terminals_above == Unwrap(pane_ids_directly_above(t, id))
        terminal_borders == {t.panes[q].x : q \in Range(terminals_above)}
        first == top_aligned_contiguous_panes_to_the_left(t, id, terminal_borders)
        second == top_aligned_contiguous_panes_to_the_right(t, id, terminal_borders)
        left_resize_border == first[1]
        right_resize_border == second[1]
        retained == SelectSeq(terminals_above,
                        LAMBDA q : pane_is_between_vertical_borders(t, q, left_resize_border, right_resize_border))
        t1 == increase_pane_height_up(t, id, count)
        t2 == ForEach(t1, retained, reduce_pane_height_up, count)
    IN  ForEach(t2, first[2] \o second[2], increase_pane_height_up, count)

increase_pane_and_surroundings_down(t, id, count) ==
    IF pane_ids_directly_below(t, id) = None THEN Panic(t)
    ELSE
    LET terminals_below == Unwrap(pane_ids_directly_below(t, id))
        terminal_borders == {t.panes[q].x : q \in Range(terminals_below)}
        first == bottom_aligned_contiguous_panes_to_the_left(t, id, terminal_borders)
        second == bottom_aligned_contiguous_panes_to_the_right(t, id, terminal_borders)
        left_resize_border == first[1]
        right_resize_border == second[1]
        retained == SelectSeq(terminals_below,
                        LAMBDA q : pane_is_between_vertical_borders(t, q, left_resize_border, right_resize_border))
        t1 == increase_pane_height_down(t, id, count)
        t2 == ForEach(t1, retained, reduce_pane_height_down, count)
    IN  ForEach(t2, first[2] \o second[2], increase_pane_height_down, count)

increase_pane_and_surroundings_right(t, id, count) ==
    IF pane_ids_directly_right_of(t, id) = None THEN Panic(t)
    ELSE
    LET terminals_to_the_right == Unwrap(pane_ids_directly_right_of(t, id))
        terminal_borders == {t.panes[q].y : q \in Range(terminals_to_the_right)}
        first == right_aligned_contiguous_panes_above(t, id, terminal_borders)
        second == right_aligned_contiguous_panes_below(t, id, terminal_borders)
        top_resize_border == first[1]
        bottom_resize_border == second[1]
        retained == SelectSeq(terminals_to_the_right,
                        LAMBDA q : pane_is_between_horizontal_borders(t, q, top_resize_border, bottom_resize_border))
        t1 == increase_pane_width_right(t, id, count)
        t2 == ForEach(t1, retained, reduce_pane_width_right, count)
    IN  ForEach(t2, first[2] \o second[2], increase_pane_width_right, count)

increase_pane_and_surroundings_left(t, id, count) ==
    IF pane_ids_directly_left_of(t, id) = None THEN Panic(t)
    ELSE
    LET terminals_to_the_left == Unwrap(pane_ids_directly_left_of(t, id))
        terminal_borders == {t.panes[q].y : q \in Range(terminals_to_the_left)}
        first == left_aligned_contiguous_panes_above(t, id, terminal_borders)
        second == left_aligned_contiguous_panes_below(t, id, terminal_borders)
        top_resize_border == first[1]
        bottom_resize_border == second[1]
        retained == SelectSeq(terminals_to_the_left,
                        LAMBDA q : pane_is_between_horizontal_borders(t, q, top_resize_border, bottom_resize_border))
        t1 == increase_pane_width_left(t, id, count)
        t2 == ForEach(t1, retained, reduce_pane_width_left, count)
    IN  ForEach(t2, first[2] \o second[2], increase_pane_width_left, count)

(***************************************************************************)
(* Resize guards (tab.rs 1549-1720).  No pane of the model has a maximum   *)
(* width or height (max_width and max_height default to None), so the      *)
(* max-size conjuncts of the source are TRUE.                              *)
(***************************************************************************)
min_width(p) == MIN_TERMINAL_WIDTH

min_height(p) == MIN_TERMINAL_HEIGHT

can_increase_pane_and_surroundings_right(t, pane_id, increase_by) ==
    /\ pane_ids_directly_right_of(t, pane_id) # None
    /\ \A id \in Range(Unwrap(pane_ids_directly_right_of(t, pane_id))) :
            /\ t.panes[id].columns > increase_by
            /\ t.panes[id].columns - increase_by >= min_width(t.panes[id])

can_increase_pane_and_surroundings_left(t, pane_id, increase_by) ==
    /\ pane_ids_directly_left_of(t, pane_id) # None
    /\ \A id \in Range(Unwrap(pane_ids_directly_left_of(t, pane_id))) :
            /\ t.panes[id].columns > increase_by
            /\ t.panes[id].columns - increase_by >= min_width(t.panes[id])

can_increase_pane_and_surroundings_down(t, pane_id, increase_by) ==
    /\ pane_ids_directly_below(t, pane_id) # None
    /\ \A id \in Range(Unwrap(pane_ids_directly_below(t, pane_id))) :
            /\ t.panes[id].rows > increase_by
            /\ t.panes[id].rows - increase_by >= min_height(t.panes[id])

can_increase_pane_and_surroundings_up(t, pane_id, increase_by) ==
    /\ pane_ids_directly_above(t, pane_id) # None
    /\ \A id \in Range(Unwrap(pane_ids_directly_above(t, pane_id))) :
            /\ t.panes[id].rows > increase_by
            /\ t.panes[id].rows - increase_by >= min_height(t.panes[id])

can_reduce_pane_and_surroundings_right(t, pane_id, reduce_by) ==
    /\ t.panes[pane_id].columns > reduce_by
    /\ t.panes[pane_id].columns - reduce_by >= min_width(t.panes[pane_id])
    /\ pane_ids_directly_left_of(t, pane_id) # None

can_reduce_pane_and_surroundings_left(t, pane_id, reduce_by) ==
    /\ t.panes[pane_id].columns > reduce_by
    /\ t.panes[pane_id].columns - reduce_by >= min_width(t.panes[pane_id])
    /\ pane_ids_directly_right_of(t, pane_id) # None

can_reduce_pane_and_surroundings_down(t, pane_id, reduce_by) ==
    /\ t.panes[pane_id].rows > reduce_by
    /\ t.panes[pane_id].rows - reduce_by >= min_height(t.panes[pane_id])
    /\ pane_ids_directly_above(t, pane_id) # None

can_reduce_pane_and_surroundings_up(t, pane_id, reduce_by) ==
    /\ t.panes[pane_id].rows > reduce_by
    /\ t.panes[pane_id].rows - reduce_by >= min_height(t.panes[pane_id])
    /\ pane_ids_directly_below(t, pane_id) # None

(***************************************************************************)
(* resize_left/right move a border by 10 columns, resize_up/down by 2 rows *)
(* (tab.rs 1737-1784), and render the tab.                                 *)
(***************************************************************************)
ResizeColumns == 10

ResizeRows == 2

resize_left_without_reduce(t) ==
    render(
    LET count == ResizeColumns
    IN  IF t.active_terminal = None THEN t
        ELSE LET active_pane_id == Unwrap(t.active_terminal)
             IN  IF active_pane_id \notin DOMAIN t.panes THEN Panic(t)
                 ELSE IF can_increase_pane_and_surroundings_left(t, active_pane_id, count)
                 THEN increase_pane_and_surroundings_left(t, active_pane_id, count)
                 ELSE t)

resize_left(t) ==
    render(
    LET count == ResizeColumns
    IN  IF t.active_terminal = None THEN t
        ELSE LET active_pane_id == Unwrap(t.active_terminal)
             IN  IF active_pane_id \notin DOMAIN t.panes THEN Panic(t)
                 ELSE IF can_increase_pane_and_surroundings_left(t, active_pane_id, count)
                 THEN increase_pane_and_surroundings_left(t, active_pane_id, count)
                 ELSE IF can_reduce_pane_and_surroundings_left(t, active_pane_id, count)
                 THEN reduce_pane_and_surroundings_left(t, active_pane_id, count)
                 ELSE t)

resize_right(t) ==
    render(
    LET count == ResizeColumns
    IN  IF t.active_terminal = None THEN t
        ELSE LET active_pane_id == Unwrap(t.active_terminal)
             IN  IF active_pane_id \notin DOMAIN t.panes THEN Panic(t)
                 ELSE IF can_increase_pane_and_surroundings_right(t, active_pane_id, count)
                 THEN increase_pane_and_surroundings_right(t, active_pane_id, count)
                 ELSE IF can_reduce_pane_and_surroundings_right(t, active_pane_id, count)
                 THEN reduce_pane_and_surroundings_right(t, active_pane_id, count)
                 ELSE t)

resize_down(t) ==
    render(
    LET count == ResizeRows
    IN  IF t.active_terminal = None THEN t
        ELSE LET active_pane_id == Unwrap(t.active_terminal)
             IN  IF active_pane_id \notin DOMAIN t.panes THEN Panic(t)
                 ELSE IF can_increase_pane_and_surroundings_down(t, active_pane_id, count)
                 THEN increase_pane_and_surroundings_down(t, active_pane_id, count)
                 ELSE IF can_reduce_pane_and_surroundings_down(t, active_pane_id, count)
                 THEN reduce_pane_and_surroundings_down(t, active_pane_id, count)
                 ELSE t)

resize_up(t) ==
    render(
    LET count == ResizeRows
    IN  IF t.active_terminal = None THEN t
        ELSE LET active_pane_id == Unwrap(t.active_terminal)
             IN  IF active_pane_id \notin DOMAIN t.panes THEN Panic(t)
                 ELSE IF can_increase_pane_and_surroundings_up(t, active_pane_id, count)
                 THEN increase_pane_and_surroundings_up(t, active_pane_id, count)
                 ELSE IF can_reduce_pane_and_surroundings_up(t, active_pane_id, count)
                 THEN reduce_pane_and_surroundings_up(t, active_pane_id, count)
                 ELSE t)

(***************************************************************************)
(* Fullscreen (tab.rs 658-709).  Entering hides every other pane of the    *)
(* tab and overrides the active pane's position and size with the whole    *)
(* screen; leaving clears the hidden set and the override.  A tab with one *)
(* pane is left as it is.  Pane::override_size_and_position and            *)
(* Pane::reset_size_and_position_override are the pane's own.  Opening    *)
(* and closing a pane leave fullscreen first.                              *)
(***************************************************************************)
override_size_and_position(p, x, y, size) ==
    [p EXCEPT !.base = IF @ = None THEN Some(position_and_size(p)) ELSE @,
              !.x = x, !.y = y, !.columns = size.columns, !.rows = size.rows]

reset_size_and_position_override(p) == [WithoutOverride(p) EXCEPT !.base = None]

keep_fullscreen_is_active(t) == t

toggle_fullscreen_is_active(t) ==
    IF t.fault # "none" THEN t ELSE [t EXCEPT !.fullscreen_is_active = ~@]

toggle_active_pane_fullscreen(t) ==
    IF t.active_terminal = None THEN t
    ELSE LET active_pane_id == Unwrap(t.active_terminal)
             pane_ids_to_hide == DOMAIN t.panes \ {active_pane_id}
         IN  IF t.fullscreen_is_active
             THEN IF ~(t.panes_to_hide \subseteq DOMAIN t.panes)
                     \/ active_pane_id \notin DOMAIN t.panes
                  THEN Panic(t)
                  ELSE toggle_fullscreen_is_active(render(
                          [t EXCEPT !.panes_to_hide = {},
                                    !.panes[active_pane_id] =
                                        reset_size_and_position_override(@)]))
             ELSE IF pane_ids_to_hide = {}
                  THEN [t EXCEPT !.panes_to_hide = {}]
                  ELSE IF active_pane_id \notin DOMAIN t.panes
                  THEN Panic([t EXCEPT !.panes_to_hide = pane_ids_to_hide])
                  ELSE toggle_fullscreen_is_active(render(
                          [t EXCEPT !.panes_to_hide = pane_ids_to_hide,
                                    !.panes[active_pane_id] =
                                        override_size_and_position(@, full_screen_ws.x,
                                            full_screen_ws.y, full_screen_ws)]))

leave_fullscreen(t) ==
    IF t.fullscreen_is_active THEN toggle_active_pane_fullscreen(t) ELSE t

(***************************************************************************)
(* Closing a pane (tab.rs 1988-2209).                                      *)
(***************************************************************************)
horizontal_borders(t, terminals) ==
    UNION {{t.panes[q].y, t.panes[q].y + t.panes[q].rows + 1} : q \in Range(terminals)}

vertical_borders(t, terminals) ==
    UNION {{t.panes[q].x, t.panes[q].x + t.panes[q].columns + 1} : q \in Range(terminals)}

panes_to_the_left_between_aligning_borders(t, id) ==
    LET upper_close_border == t.panes[id].y
        lower_close_border == t.panes[id].y + t.panes[id].rows + 1
        direct == pane_ids_directly_left_of(t, id)
    IN  IF direct # None
           /\ upper_close_border \in horizontal_borders(t, Unwrap(direct))
           /\ lower_close_border \in horizontal_borders(t, Unwrap(direct))
        THEN Some(SelectSeq(Unwrap(direct),
                    LAMBDA q : pane_is_between_horizontal_borders(t, q, upper_close_border, lower_close_border)))
        ELSE None

panes_to_the_right_between_aligning_borders(t, id) ==
    LET upper_close_border == t.panes[id].y
        lower_close_border == t.panes[id].y + t.panes[id].rows + 1
        direct == pane_ids_directly_right_of(t, id)
    IN  IF direct # None
           /\ upper_close_border \in horizontal_borders(t, Unwrap(direct))
           /\ lower_close_border \in horizontal_borders(t, Unwrap(direct))
        THEN Some(SelectSeq(Unwrap(direct),
                    LAMBDA q : pane_is_between_horizontal_borders(t, q, upper_close_border, lower_close_border)))
        ELSE None

panes_above_between_aligning_borders(t, id) ==
    LET left_close_border == t.panes[id].x
        right_close_border == t.panes[id].x + t.panes[id].columns + 1
        direct == pane_ids_directly_above(t, id)
    IN  IF direct # None
           /\ left_close_border \in vertical_borders(t, Unwrap(direct))
           /\ right_close_border \in vertical_borders(t, Unwrap(direct))
        THEN Some(SelectSeq(Unwrap(direct),
                    LAMBDA q : pane_is_between_vertical_borders(t, q, left_close_border, right_close_border)))
        ELSE None

panes_below_between_aligning_borders(t, id) ==
    LET left_close_border == t.panes[id].x
        right_close_border == t.panes[id].x + t.panes[id].columns + 1
        direct == pane_ids_directly_below(t, id)
    IN  IF direct # None
           /\ left_close_border \in vertical_borders(t, Unwrap(direct))
           /\ right_close_border \in vertical_borders(t, Unwrap(direct))
        THEN Some(SelectSeq(Unwrap(direct),
                    LAMBDA q : pane_is_between_vertical_borders(t, q, left_close_border, right_close_border)))
        ELSE None

(* Pane::max_width and Pane::max_height default to None and no terminal     *)
(* pane opened by new_pane or a split is given a maximum, so the unwrap_or  *)
(* branch decides: a pane can always grow.                                  *)
can_increase_width_by(p, increase_by) == TRUE

can_increase_height_by(p, increase_by) == TRUE

(* A strategy is taken when the neighbours on that side exist and all of    *)
(* them can grow by the closed pane's extent and its border.                *)
close_strategy(t, id) ==
    IF id \notin DOMAIN t.panes THEN "absent"
    ELSE
    LET pane_to_close_width == t.panes[id].columns
        pane_to_close_height == t.panes[id].rows
        left == panes_to_the_left_between_aligning_borders(t, id)
        right == panes_to_the_right_between_aligning_borders(t, id)
        above == panes_above_between_aligning_borders(t, id)
        below == panes_below_between_aligning_borders(t, id)
        AllWider(panes) == \A p \in Range(Unwrap(panes)) :
                               can_increase_width_by(t.panes[p], pane_to_close_width + 1)
        AllHigher(panes) == \A p \in Range(Unwrap(panes)) :
                               can_increase_height_by(t.panes[p], pane_to_close_height + 1)
    IN  IF left # None /\ AllWider(left) THEN "left"
        ELSE IF right # None /\ AllWider(right) THEN "right"
        ELSE IF above # None /\ AllHigher(above) THEN "above"
        ELSE IF below # None /\ AllHigher(below) THEN "below"
        ELSE "none"

close_growth_without_border(extent) == extent

close_growth(extent) == extent + 1

close_into(t, id, panes, Op(_, _, _), count) ==
    LET t1 == remove_pane(ForEach(t, panes, Op, count), id)
    IN  IF t.active_terminal = Some(id)
        THEN [t1 EXCEPT !.active_terminal = next_active_pane(t1, panes)]
        ELSE t1

close_pane_without_rerender(tab_on_entry, id) ==
    LET close(t) ==
        IF t.fault # "none" \/ id \notin DOMAIN t.panes THEN t
        ELSE
        LET pane_to_close_width == t.panes[id].columns
            pane_to_close_height == t.panes[id].rows
            strategy == close_strategy(t, id)
        IN  CASE strategy = "left" ->
                    close_into(t, id, Unwrap(panes_to_the_left_between_aligning_borders(t, id)),
                               increase_pane_width_right, close_growth(pane_to_close_width))
              [] strategy = "right" ->
                    close_into(t, id, Unwrap(panes_to_the_right_between_aligning_borders(t, id)),
                               increase_pane_width_left, close_growth(pane_to_close_width))
              [] strategy = "above" ->
                    close_into(t, id, Unwrap(panes_above_between_aligning_borders(t, id)),
                               increase_pane_height_down, close_growth(pane_to_close_height))
              [] strategy = "below" ->
                    close_into(t, id, Unwrap(panes_below_between_aligning_borders(t, id)),
                               increase_pane_height_up, close_growth(pane_to_close_height))
              [] OTHER -> remove_pane(t, id)
    IN  close(leave_fullscreen(tab_on_entry))

close_pane(t, id) ==
    IF id \in DOMAIN t.panes THEN close_pane_without_rerender(t, id) ELSE t

(***************************************************************************)
(* Opening panes (tab.rs 370-581).  A tab with max_panes first closes the  *)
(* panes beyond the first max_panes - 1 (tab.rs 2097-2107); a tab without  *)
(* max_panes, as Tab_new is, closes none.  A tab in fullscreen leaves      *)
(* fullscreen before the pane is opened.  A pane that was opened is        *)
(* rendered; a rejected one is not.                                        *)
(***************************************************************************)
\* a tab that closes nothing before it opens a pane
keep_every_terminal(t) == t

close_down_to_max_terminals(t) ==
    IF t.max_panes = None THEN t
    ELSE IF Unwrap(t.max_panes) = 0 THEN Underflow(t)
    ELSE LET terminals == IdsInOrder(get_pane_ids(t))
             \* terminals.iter().skip(max_panes - 1)
             skipped == IF Unwrap(t.max_panes) > Len(terminals) THEN <<>>
                        ELSE SubSeq(terminals, Unwrap(t.max_panes), Len(terminals))
         IN  FoldSeq(LAMBDA acc, pid :
                         IF acc.fault # "none" THEN acc
                         ELSE close_pane_without_rerender(send_to_pty_ClosePane(acc, pid), pid),
                     t, skipped)

first_pane(t, pid) ==
    [insert_pane(t, pid, TerminalPane_new(full_screen_ws))
        EXCEPT !.active_terminal = Some(pid)]

terminal_size(p) == (p.rows * CURSOR_HEIGHT_WIDTH_RATIO) * p.columns

terminal_can_be_split(p) ==
    /\ p.columns >= MIN_TERMINAL_WIDTH
    /\ p.rows >= MIN_TERMINAL_HEIGHT
    /\ (p.columns > min_width(p) * 2 \/ p.rows > min_height(p) * 2)

terminal_id_to_split(t) ==
    FoldSeq(LAMBDA acc, id :
                IF terminal_can_be_split(t.panes[id]) /\ terminal_size(t.panes[id]) > acc[1]
                THEN <<terminal_size(t.panes[id]), Some(id)>> ELSE acc,
            <<0, None>>, IdsInOrder(DOMAIN t.panes))[2]

split_pane(t, id, pid, halves) ==
    [insert_pane([t EXCEPT !.panes[id] = change_pos_and_size(@, halves[1])],
                 pid, TerminalPane_new(halves[2]))
        EXCEPT !.active_terminal = Some(pid)]

new_pane(tab_on_entry, pid) ==
    LET open(t) ==
            IF t.fault # "none" THEN t
            ELSE IF ~has_panes(t) THEN first_pane(t, pid)
            ELSE IF terminal_id_to_split(t) = None THEN send_to_pty_ClosePane(t, pid)
            ELSE LET id == Unwrap(terminal_id_to_split(t))
                     terminal_to_split == t.panes[id]
                     terminal_ws == position_and_size(terminal_to_split)
                 IN  IF terminal_to_split.rows * CURSOR_HEIGHT_WIDTH_RATIO > terminal_to_split.columns
                        /\ terminal_to_split.rows > min_height(terminal_to_split) * 2
                     THEN render(split_pane(t, id, pid, split_horizontally_with_gap(terminal_ws)))
                     ELSE IF terminal_to_split.columns > min_width(terminal_to_split) * 2
                     THEN render(split_pane(t, id, pid, split_vertically_with_gap(terminal_ws)))
                     ELSE render([t EXCEPT !.active_terminal = Some(pid)])
    IN  open(leave_fullscreen(close_down_to_max_terminals(tab_on_entry)))

horizontal_split(tab_on_entry, pid) ==
    LET open(t) ==
            IF t.fault # "none" THEN t
            ELSE IF ~has_panes(t) THEN first_pane(t, pid)
            ELSE IF t.active_terminal = None \/ Unwrap(t.active_terminal) \notin DOMAIN t.panes
            THEN Panic(t)
            ELSE LET active_pane_id == Unwrap(t.active_terminal)
                     active_pane == t.panes[active_pane_id]
                 IN  IF active_pane.rows < MIN_TERMINAL_HEIGHT * 2 + 1
                     THEN send_to_pty_ClosePane(t, pid)
                     ELSE render(split_pane(t, active_pane_id, pid,
                                     split_horizontally_with_gap(position_and_size(active_pane))))
    IN  open(leave_fullscreen(close_down_to_max_terminals(tab_on_entry)))

vertical_split(tab_on_entry, pid) ==
    LET open(t) ==
            IF t.fault # "none" THEN t
            ELSE IF ~has_panes(t) THEN first_pane(t, pid)
            ELSE IF t.active_terminal = None \/ Unwrap(t.active_terminal) \notin DOMAIN t.panes
            THEN Panic(t)
            ELSE LET active_pane_id == Unwrap(t.active_terminal)
                     active_pane == t.panes[active_pane_id]
                 IN  IF active_pane.columns < MIN_TERMINAL_WIDTH * 2 + 1
                     THEN send_to_pty_ClosePane(t, pid)
                     ELSE render(split_pane(t, active_pane_id, pid,
                                     split_vertically_with_gap(position_and_size(active_pane))))
    IN  open(leave_fullscreen(close_down_to_max_terminals(tab_on_entry)))

(***************************************************************************)
(* The layout state machine: one tab on an 80x24 screen that starts with   *)
(* a single pane, driven by the instructions the screen thread forwards to *)
(* the tab.  `last` records the instruction just handled: the pane it      *)
(* acted on (id), the pane it opened (pid), the rectangle of the pane it   *)
(* acted on before the step (rect) and what the handler did (outcome).     *)
(* The session is attached, so the screen's render after ClosePane closes  *)
(* a tab that is left without an active pane (screen.rs 295-307, 567-570). *)
(* A panicked or closed tab handles no further instruction.                *)
(***************************************************************************)
NoRect == [x |-> 0, y |-> 0, columns |-> 0, rows |-> 0]

Step(op, id, pid, rect, outcome) ==
    [op |-> op, id |-> id, pid |-> pid, rect |-> rect, outcome |-> outcome]

RectOf(t, id) ==
    IF id # None /\ Unwrap(id) \in DOMAIN t.panes
    THEN position_and_size(t.panes[Unwrap(id)]) ELSE NoRect

OpenOutcome(t, t2, pid) ==
    IF t2.fault # "none" THEN t2.fault
    ELSE IF \E i \in 1..Len(t2.closed_ptys) : t2.closed_ptys[i] = pid THEN "rejected"
    ELSE IF ~has_panes(t) THEN "first"
    ELSE "split"

TabInit ==
    /\ tab = Tab_new
    /\ next_pid = 2
    /\ ScreenIdle
    /\ last = Step("new", None, Some(1), NoRect, "first")

NewPane ==
    /\ Live(tab) /\ next_pid <= MaxPid
    /\ LET id == IF has_panes(tab) THEN terminal_id_to_split(tab) ELSE None
           t2 == new_pane(tab, next_pid)
       IN  /\ tab' = t2
           /\ last' = Step("new_pane", id, Some(next_pid), RectOf(tab, id),
                           OpenOutcome(tab, t2, next_pid))
    /\ next_pid' = next_pid + 1
    /\ UNCHANGED <<grid, screen, session>>

HorizontalSplit ==
    /\ Live(tab) /\ next_pid <= MaxPid
    /\ LET t2 == horizontal_split(tab, next_pid)
       IN  /\ tab' = t2
           /\ last' = Step("horizontal_split", tab.active_terminal, Some(next_pid),
                           RectOf(tab, tab.active_terminal), OpenOutcome(tab, t2, next_pid))
    /\ next_pid' = next_pid + 1
    /\ UNCHANGED <<grid, screen, session>>

VerticalSplit ==
    /\ Live(tab) /\ next_pid <= MaxPid
    /\ LET t2 == vertical_split(tab, next_pid)
       IN  /\ tab' = t2
           /\ last' = Step("vertical_split", tab.active_terminal, Some(next_pid),
                           RectOf(tab, tab.active_terminal), OpenOutcome(tab, t2, next_pid))
    /\ next_pid' = next_pid + 1
    /\ UNCHANGED <<grid, screen, session>>

Geometry(t) == [q \in DOMAIN t.panes |-> position_and_size(t.panes[q])]

ResizeOutcome(t, t2) ==
    IF t2.fault # "none" THEN t2.fault
    ELSE IF Geometry(t2) = Geometry(t) THEN "unchanged" ELSE "resized"

Resize(op, t2) ==
    /\ Live(tab)
    /\ tab' = t2
    /\ last' = Step(op, tab.active_terminal, None, RectOf(tab, tab.active_terminal),
                    ResizeOutcome(tab, t2))
    /\ UNCHANGED <<next_pid, grid, screen, session>>

ResizeLeft == Resize("resize_left", resize_left(tab))

ResizeRight == Resize("resize_right", resize_right(tab))

ResizeDown == Resize("resize_down", resize_down(tab))

ResizeUp == Resize("resize_up", resize_up(tab))

get_active_pane(t) ==
    IF t.active_terminal # None /\ Unwrap(t.active_terminal) \in DOMAIN t.panes
    THEN Some(t.panes[Unwrap(t.active_terminal)]) ELSE None

Screen_render(t) ==
    IF t.session_state # "Attached" THEN t
    ELSE IF get_active_pane(t) # None THEN render(t) ELSE [t EXCEPT !.closed = TRUE]

ClosePane ==
    /\ Live(tab)
    /\ \E id \in 1..MaxPid :
        /\ id < next_pid
        /\ tab' = Screen_render(close_pane(tab, id))
        /\ last' = Step("close_pane", Some(id), None, RectOf(tab, Some(id)),
                        close_strategy(tab, id))
    /\ UNCHANGED <<next_pid, grid, screen, session>>

LayoutNext ==
    /\ \/ NewPane
       \/ HorizontalSplit
       \/ VerticalSplit
       \/ ClosePane
    /\ UNCHANGED nops

TabNext ==
    /\ nops < MaxTabOps
    /\ \/ NewPane
       \/ HorizontalSplit
       \/ VerticalSplit
       \/ ResizeLeft
       \/ ResizeRight
       \/ ResizeDown
       \/ ResizeUp
       \/ ClosePane
    /\ nops' = nops + 1

(***************************************************************************)
(* Panes and their one-cell borders tile the screen: give every pane the   *)
(* border column to its right and the border row below it; the extended    *)
(* rectangles must be pairwise disjoint, lie inside the screen extended by *)
(* one column and one row, and add up to its area.                         *)
(***************************************************************************)
Disjoint(p, q) ==
    \/ p.x + p.columns + 1 <= q.x
    \/ q.x + q.columns + 1 <= p.x
    \/ p.y + p.rows + 1 <= q.y
    \/ q.y + q.rows + 1 <= p.y

RECURSIVE SumArea(_, _)
SumArea(t, S) ==
    IF S = {} THEN 0
    ELSE LET q == CHOOSE q \in S : TRUE
         IN  (t.panes[q].columns + 1) * (t.panes[q].rows + 1) + SumArea(t, S \ {q})

Tiles(t) ==
    /\ \A q \in DOMAIN t.panes :
        /\ t.panes[q].columns >= 1 /\ t.panes[q].rows >= 1
        /\ t.panes[q].x + t.panes[q].columns <= full_screen_ws.columns
        /\ t.panes[q].y + t.panes[q].rows <= full_screen_ws.rows
    /\ \A q, r \in DOMAIN t.panes : q # r => Disjoint(t.panes[q], t.panes[r])
    /\ SumArea(t, DOMAIN t.panes) = (full_screen_ws.columns + 1) * (full_screen_ws.rows + 1)

MinSizes(t) ==
    \A q \in DOMAIN t.panes :
        t.panes[q].columns >= MIN_TERMINAL_WIDTH /\ t.panes[q].rows >= MIN_TERMINAL_HEIGHT

TilesWhileLive == ~Live(tab) \/ Tiles(tab)

NoPanic == tab.fault # "panic"

ActiveIsAPane == Live(tab) => tab.active_terminal \subseteq DOMAIN tab.panes

(***************************************************************************)
(* Properties of the layout.                                               *)
(***************************************************************************)
ClosedByStrategy(l) ==
    l.op = "close_pane" /\ l.outcome \in {"left", "right", "above", "below"}

\* C7: closing a pane through one of the four reflow strategies turns a
\* layout whose panes and one-cell borders tile the screen into a layout
\* whose remaining panes again do not overlap and, with their borders,
\* cover exactly the same screen.
C7_CloseKeepsTiling ==
    [][(Tiles(tab) /\ ClosedByStrategy(last')) => Tiles(tab')]_vars

C7_Witness ==
    /\ ClosedByStrategy(last)
    /\ Cardinality(DOMAIN tab.panes) >= 3
    /\ Tiles(tab)

\* C8: after any sequence of new_pane, horizontal_split, vertical_split,
\* resize_left/right/up/down and close_pane from a single pane, every pane
\* has at least MIN_TERMINAL_WIDTH columns and MIN_TERMINAL_HEIGHT rows, and
\* no resize takes a pane's extent below zero.
C8_MinimumPaneSize == tab.fault # "underflow" /\ MinSizes(tab)

SplitDone(l) ==
    l.op \in {"new_pane", "horizontal_split", "vertical_split"} /\ l.outcome = "split"

KeepsRectHorizontally(parent, first, second) ==
    /\ first.x = parent.x /\ second.x = parent.x
    /\ first.columns = parent.columns /\ second.columns = parent.columns
    /\ first.y = parent.y
    /\ second.y = first.y + first.rows + 1
    /\ first.rows + second.rows = parent.rows - 1
    /\ second.y + second.rows = parent.y + parent.rows
    /\ IF parent.rows % 2 = 0 THEN first.rows = second.rows + 1
       ELSE first.rows = second.rows

KeepsRectVertically(parent, first, second) ==
    /\ first.y = parent.y /\ second.y = parent.y
    /\ first.rows = parent.rows /\ second.rows = parent.rows
    /\ first.x = parent.x
    /\ second.x = first.x + first.columns + 1
    /\ first.columns + second.columns = parent.columns - 1
    /\ second.x + second.columns = parent.x + parent.columns
    /\ IF parent.columns % 2 = 0 THEN first.columns = second.columns + 1
       ELSE first.columns = second.columns

\* C9: a split keeps the parent's rectangle.  After horizontal_split the
\* parent and the new pane have the parent's x and columns, their rows sum
\* to parent.rows - 1 and exactly one border row lies between them; after
\* vertical_split symmetrically; new_pane does one of the two.  When the
\* parent's extent is even the top/left half has the extra cell.
C9_SplitKeepsRect ==
    SplitDone(last) =>
        LET first == tab.panes[Unwrap(last.id)]
            second == tab.panes[Unwrap(last.pid)]
        IN  CASE last.op = "horizontal_split" ->
                    KeepsRectHorizontally(last.rect, first, second)
              [] last.op = "vertical_split" ->
                    KeepsRectVertically(last.rect, first, second)
              [] OTHER ->
                    \/ KeepsRectHorizontally(last.rect, first, second)
                    \/ KeepsRectVertically(last.rect, first, second)

C9_Witness ==
    /\ SplitDone(last) /\ last.op = "vertical_split"
    /\ last.rect.columns % 2 = 0
    /\ tab.panes[Unwrap(last.id)].columns = tab.panes[Unwrap(last.pid)].columns + 1

Rect(x, y, columns, rows) == [x |-> x, y |-> y, columns |-> columns, rows |-> rows]

TwoPanes(a, b) ==
    /\ DOMAIN tab.panes = {1, 2}
    /\ position_and_size(tab.panes[1]) = a
    /\ position_and_size(tab.panes[2]) = b

FirstSplitDone ==
    /\ last.op = "horizontal_split" /\ last.outcome = "split"
    /\ last.rect = full_screen_ws /\ last.id = Some(1) /\ last.pid = Some(2)
    /\ DOMAIN tab.panes = {1, 2}

OnlyPane2FullScreen(t) ==
    /\ DOMAIN t.panes = {2}
    /\ position_and_size(t.panes[2]) = full_screen_ws

\* C10 as stated: horizontal_split of the single 80x24 pane yields pane A at
\* (0,0,80,11), a border row at y=11 and pane B at (0,12,80,12), and closing
\* A afterwards leaves B at (0,0,80,24).
C10_AsStated ==
    /\ [](FirstSplitDone => TwoPanes(Rect(0, 0, 80, 11), Rect(0, 12, 80, 12)))
    /\ [][(FirstSplitDone /\ last'.op = "close_pane" /\ last'.id = Some(1))
            => OnlyPane2FullScreen(tab')]_vars

\* C10 amended: horizontal_split of the single 80x24 pane yields pane A at
\* (0,0,80,12), a border row at y=12 and pane B at (0,13,80,11), and closing
\* A afterwards leaves B at (0,0,80,24).
C10_SplitThenClose ==
    /\ [](FirstSplitDone => TwoPanes(Rect(0, 0, 80, 12), Rect(0, 13, 80, 11)))
    /\ [][(FirstSplitDone /\ last'.op = "close_pane" /\ last'.id = Some(1))
            => OnlyPane2FullScreen(tab')]_vars

C10_Witness ==
    /\ last.op = "close_pane" /\ last.id = Some(1) /\ last.rect = Rect(0, 0, 80, 12)
    /\ last.outcome = "below"
    /\ next_pid = 3
    /\ OnlyPane2FullScreen(tab)

(***************************************************************************)
(* Grid (panes/grid.rs).                                                   *)
(*                                                                         *)
(* A TerminalCharacter is modelled by its character alone; its width is a  *)
(* function of the character (as computed by Perform::print) and its       *)
(* styles are left out.  "W" stands for a double-width character, "z" for  *)
(* a zero-width one, " " is EMPTY_TERMINAL_CHARACTER.                      *)
(***************************************************************************)
EMPTY_TERMINAL_CHARACTER == " "

char_width(c) == CASE c = "W" -> 2 [] c = "z" -> 0 [] OTHER -> 1

Take(s, n) == SubSeq(s, 1, Min(n, Len(s)))

Drop(s, n) == SubSeq(s, Min(n, Len(s)) + 1, Len(s))

Repeat(e, n) == [k \in 1..n |-> e]

\* Vec::resize
VecResize(s, n, e) == IF n <= Len(s) THEN Take(s, n) ELSE s \o Repeat(e, n - Len(s))

\* Vec::insert and Vec::remove at a 0-based index within range
VecInsert(s, i, e) == Take(s, i) \o <<e>> \o Drop(s, i)

VecRemove(s, i) == Take(s, i) \o Drop(s, i + 1)

SatSub(a, b) == IF a >= b THEN a - b ELSE 0

Row_new == [columns |-> <<>>, is_canonical |-> FALSE]

from_columns(columns) == [columns |-> columns, is_canonical |-> FALSE]

canonical(row) == [row EXCEPT !.is_canonical = TRUE]

from_rows(rows) ==
    IF rows = <<>> THEN Row_new
    ELSE [columns |-> FoldSeq(LAMBDA acc, r : acc \o r.columns, <<>>, rows),
          is_canonical |-> rows[1].is_canonical]

cells_width(columns) == FoldSeq(LAMBDA acc, c : acc + char_width(c), 0, columns)

cells_excess(columns) ==
    FoldSeq(LAMBDA acc, c : IF char_width(c) > 1 THEN acc + char_width(c) - 1 ELSE acc,
            0, columns)

Row_width(row) == cells_width(row.columns)

excess_width(row) == cells_excess(row.columns)

excess_width_until(row, x) == cells_excess(Take(row.columns, x))

add_character_at(row, terminal_character, x) ==
    LET width_offset == excess_width_until(row, x)
        at == SatSub(x, width_offset)
    IN  IF Row_width(row) = x
        THEN [row EXCEPT !.columns = Append(@, terminal_character)]
        ELSE IF Row_width(row) < x
        THEN [row EXCEPT !.columns =
                Append(VecResize(@, at, EMPTY_TERMINAL_CHARACTER), terminal_character)]
        ELSE \* push, then swap_remove(at): the pushed character takes place `at`
             IF at < Len(row.columns)
             THEN [row EXCEPT !.columns[at + 1] = terminal_character]
             ELSE row

insert_character_at(row, terminal_character, x) ==
    IF Len(row.columns) = x
    THEN [row EXCEPT !.columns = Append(@, terminal_character)]
    ELSE IF Len(row.columns) < x
    THEN [row EXCEPT !.columns =
            Append(VecResize(@, x, EMPTY_TERMINAL_CHARACTER), terminal_character)]
    ELSE [row EXCEPT !.columns = VecInsert(@, x, terminal_character)]

replace_character_at(row, terminal_character, x) ==
    IF x < Len(row.columns)
    THEN LET replaced == row.columns[x + 1]
             excess == SatSub(char_width(replaced), 1)
         IN  [row EXCEPT !.columns =
                Take(@, x) \o Repeat(terminal_character, excess + 1) \o Drop(@, x + 1)]
    ELSE row

replace_columns(row, columns) == [row EXCEPT !.columns = columns]

truncate(row, x) ==
    LET truncate_position == SatSub(x, excess_width_until(row, x))
    IN  IF truncate_position < Len(row.columns)
        THEN [row EXCEPT !.columns = Take(@, truncate_position)]
        ELSE row

position_accounting_for_widechars(row, x) ==
    LET f[i \in 0..Len(row.columns)] ==
            \* <<position, stopped>> after looking at the first i characters
            IF i = 0 THEN <<x, FALSE>>
            ELSE LET prev == f[i - 1]
                 IN  IF prev[2] \/ (i - 1) = prev[1] THEN <<prev[1], TRUE>>
                     ELSE IF char_width(row.columns[i]) > 1
                     THEN <<SatSub(prev[1], SatSub(char_width(row.columns[i]), 1)), FALSE>>
                     ELSE prev
    IN  f[Len(row.columns)][1]

replace_and_pad_end(row, from, to, terminal_character) ==
    LET from_position == position_accounting_for_widechars(row, from)
        to_position == position_accounting_for_widechars(row, to)
        replacement_length == SatSub(to_position, from_position)
    IN  [row EXCEPT !.columns =
            Take(@, from_position) \o Repeat(terminal_character, replacement_length)]

\* <<drained part, rest of the row>>
drain_until(row, x) ==
    LET f[i \in 0..Len(row.columns)] ==
            \* <<number of characters drained, their width, stopped>>
            IF i = 0 THEN <<0, 0, FALSE>>
            ELSE LET prev == f[i - 1]
                 IN  IF ~prev[3] /\ prev[2] + char_width(row.columns[i]) <= x
                     THEN <<i, prev[2] + char_width(row.columns[i]), FALSE>>
                     ELSE <<prev[1], prev[2], TRUE>>
        n == f[Len(row.columns)][1]
    IN  <<Take(row.columns, n), [row EXCEPT !.columns = Drop(@, n)]>>

\* drain(0..=to_position) panics when to_position = len
replace_and_pad_beginning_panics(row, to) ==
    position_accounting_for_widechars(row, to) = Len(row.columns)

replace_and_pad_beginning(row, to, terminal_character) ==
    LET to_position == position_accounting_for_widechars(row, to)
        width_of_current_character ==
            IF to_position < Len(row.columns)
            THEN char_width(row.columns[to_position + 1]) ELSE 1
        replace_with == Repeat(terminal_character, to + width_of_current_character)
    IN  IF to_position > Len(row.columns)
        THEN [row EXCEPT !.columns = replace_with]
        ELSE [row EXCEPT !.columns = replace_with \o Drop(@, to_position + 1)]

\* <<the row without the character, Some(character) or None>>
delete_and_return_character(row, x) ==
    IF x < Len(row.columns)
    THEN <<[row EXCEPT !.columns = VecRemove(@, x)], Some(row.columns[x + 1])>>
    ELSE <<row, None>>

split_to_rows_of_length(row, max_row_length) ==
    LET f[i \in 0..Len(row.columns)] ==
            \* <<parts, current_part, current_part_len>>
            IF i = 0 THEN <<<<>>, <<>>, 0>>
            ELSE LET prev == f[i - 1]
                     character == row.columns[i]
                 IN  IF prev[3] + char_width(character) > max_row_length
                     THEN <<Append(prev[1], from_columns(prev[2])),
                            <<character>>, char_width(character)>>
                     ELSE <<prev[1], Append(prev[2], character),
                            prev[3] + char_width(character)>>
        end == f[Len(row.columns)]
        parts == IF end[2] # <<>> THEN Append(end[1], from_columns(end[2])) ELSE end[1]
    IN  IF parts # <<>> /\ row.is_canonical
        THEN [parts EXCEPT ![1] = canonical(@)]
        ELSE parts

(***************************************************************************)
(* Moving rows between the scrollback and the viewport (grid.rs 44-192).   *)
(***************************************************************************)
TABSTOP_WIDTH == 8

SCROLL_BACK == 2

\* <<the leading non-canonical rows, the remaining rows>>
get_top_non_canonical_rows(rows) ==
    LET n == IF \E i \in 1..Len(rows) : rows[i].is_canonical
             THEN (CHOOSE i \in 1..Len(rows) :
                      rows[i].is_canonical /\ \A j \in 1..(i - 1) : ~rows[j].is_canonical) - 1
             ELSE Len(rows)
    IN  <<Take(rows, n), Drop(rows, n)>>

\* <<the last canonical row and the rows after it, the rows before it>>
get_bottom_canonical_row_and_wraps(rows) ==
    LET n == IF \E i \in 1..Len(rows) : rows[i].is_canonical
             THEN (CHOOSE i \in 1..Len(rows) :
                      rows[i].is_canonical
                      /\ \A j \in (i + 1)..Len(rows) : ~rows[j].is_canonical) - 1
             ELSE 0
    IN  <<Drop(rows, n), Take(rows, n)>>

bounded_push_keeps_oldest(vec, value) ==
    IF Len(vec) >= SCROLL_BACK THEN Append(Take(vec, Len(vec) - 1), value)
    ELSE Append(vec, value)

bounded_push(vec, value) ==
    IF Len(vec) >= SCROLL_BACK THEN Append(Tail(vec), value) ELSE Append(vec, value)

rewrap(next_lines, max_width) ==
    IF max_width = None THEN <<from_rows(next_lines)>>
    ELSE split_to_rows_of_length(from_rows(next_lines), Unwrap(max_width))

transfer_rows_down_rest(source, next_lines, max_src_width) ==
    IF next_lines = <<>> THEN source
    ELSE IF max_src_width # None
    THEN source \o rewrap(next_lines, max_src_width)
    ELSE bounded_push(source, from_rows(next_lines))

RECURSIVE transfer_rows_down_loop(_, _, _, _, _, _, _)
transfer_rows_down_loop(source, destination, next_lines, added, count,
                        max_src_width, max_dst_width) ==
    LET done == [source |-> transfer_rows_down_rest(source, next_lines, max_src_width),
                 destination |-> destination]
    IN  IF added = count THEN done
        ELSE IF next_lines # <<>>
        THEN transfer_rows_down_loop(source,
                <<next_lines[Len(next_lines)]>> \o destination,
                Take(next_lines, Len(next_lines) - 1), added + 1, count,
                max_src_width, max_dst_width)
        ELSE IF source = <<>> THEN done
        ELSE LET next_line == source[Len(source)]
                 top == get_top_non_canonical_rows(destination)
                 lines == rewrap(<<next_line>> \o top[1], max_dst_width)
                 popped == Take(source, Len(source) - 1)
             IN  IF lines = <<>>
                 THEN [source |-> popped, destination |-> top[2]]
                 ELSE transfer_rows_down_loop(popped,
                        <<lines[Len(lines)]>> \o top[2],
                        Take(lines, Len(lines) - 1), added - Len(top[1]) + 1, count,
                        max_src_width, max_dst_width)

transfer_rows_down(source, destination, count, max_src_width, max_dst_width) ==
    transfer_rows_down_loop(source, destination, <<>>, 0, count,
                            max_src_width, max_dst_width)

Reverse(s) == [i \in 1..Len(s) |-> s[Len(s) + 1 - i]]

transfer_rows_up_rest(source, next_lines, max_src_width) ==
    IF next_lines = <<>> THEN source
    ELSE IF max_src_width # None
    THEN Reverse(rewrap(next_lines, max_src_width)) \o source
    ELSE <<from_rows(next_lines)>> \o source

\* panicked: next_lines.remove(0) on an empty vector
RECURSIVE transfer_rows_up_loop(_, _, _, _, _, _)
transfer_rows_up_loop(source, destination, next_lines, left, max_src_width, max_dst_width) ==
    LET done == [source |-> transfer_rows_up_rest(source, next_lines, max_src_width),
                 destination |-> destination, panicked |-> FALSE]
    IN  IF left = 0 THEN done
        ELSE IF next_lines # <<>>
        THEN transfer_rows_up_loop(source, bounded_push(destination, next_lines[1]),
                Tail(next_lines), left - 1, max_src_width, max_dst_width)
        ELSE IF source = <<>> THEN done
        ELSE LET next_line == source[1]
                 bottom == IF next_line.is_canonical THEN <<<<>>, destination>>
                           ELSE get_bottom_canonical_row_and_wraps(destination)
                 lines == rewrap(Append(bottom[1], next_line), max_dst_width)
             IN  IF lines = <<>>
                 THEN [source |-> Tail(source), destination |-> bottom[2],
                       panicked |-> TRUE]
                 ELSE transfer_rows_up_loop(Tail(source),
                        bounded_push(bottom[2], lines[1]), Tail(lines), left - 1,
                        max_src_width, max_dst_width)

transfer_rows_up(source, destination, count, max_src_width, max_dst_width) ==
    transfer_rows_up_loop(source, destination, <<>>, count, max_src_width, max_dst_width)

create_horizontal_tabstops(columns) ==
    {i \in 1..columns : i % TABSTOP_WIDTH = 0}

(***************************************************************************)
(* Grid: the state of one pane's terminal (grid.rs 194-255).  Styles,      *)
(* colours, character sets, the render flags and the replies queued for    *)
(* the pty are left out.  `fault` is "none" while the grid works, "panic"  *)
(* after an unwrap of None or an index out of range, "underflow" after a   *)
(* usize subtraction below zero (a panic in a debug build, a wrapped value *)
(* in a release build) and "hang" after a loop that does not terminate.    *)
(* A faulted grid handles no further input.                                *)
(***************************************************************************)
Cursor_new(x, y) == [x |-> x, y |-> y, is_hidden |-> FALSE]

Grid_new(rows, columns) ==
    [lines_above |-> <<>>,
     viewport |-> <<canonical(Row_new)>>,
     lines_below |-> <<>>,
     horizontal_tabstops |-> create_horizontal_tabstops(columns),
     alternative_lines_above_viewport_and_cursor |-> None,
     cursor |-> Cursor_new(0, 0),
     saved_cursor_position |-> None,
     scroll_region |-> None,
     preceding_char |-> None,
     erasure_mode |-> FALSE,
     insert_mode |-> FALSE,
     disable_linewrap |-> FALSE,
     width |-> columns,
     height |-> rows,
     fault |-> "none"]

Ok(g) == g.fault = "none"

Fault(g, kind) == [g EXCEPT !.fault = kind]

\* g.viewport.get(g.cursor.y).is_some()
cursor_row_exists(g) == g.cursor.y < Len(g.viewport)

cursor_row(g) == g.viewport[g.cursor.y + 1]

set_cursor_row(g, row) == [g EXCEPT !.viewport[g.cursor.y + 1] = row]

pad_current_line_until(g, position) ==
    IF ~cursor_row_exists(g) THEN Fault(g, "panic")
    ELSE LET current_row == cursor_row(g)
         IN  IF Len(current_row.columns) < position
             THEN set_cursor_row(g, [current_row EXCEPT !.columns =
                        VecResize(@, position, EMPTY_TERMINAL_CHARACTER)])
             ELSE g

pad_lines_until(g, position, pad_character) ==
    IF Len(g.viewport) <= position
    THEN [g EXCEPT !.viewport = @ \o
            Repeat(canonical(from_columns(Repeat(pad_character, g.width))),
                   position + 1 - Len(g.viewport))]
    ELSE g

advance_to_next_tabstop(g) ==
    LET later == {tabstop \in g.horizontal_tabstops : tabstop > g.cursor.x}
        x == IF later # {} THEN CHOOSE t \in later : \A u \in later : t <= u
             ELSE SatSub(g.width, 1)
        moved == [g EXCEPT !.cursor.x = x]
    IN  pad_current_line_until(moved, x)

move_to_previous_tabstop(g) ==
    LET earlier == {tabstop \in g.horizontal_tabstops : tabstop < g.cursor.x}
    IN  [g EXCEPT !.cursor.x =
            IF earlier # {} THEN CHOOSE t \in earlier : \A u \in earlier : t >= u ELSE 0]

set_horizontal_tabstop(g) == [g EXCEPT !.horizontal_tabstops = @ \cup {g.cursor.x}]

clear_tabstop(g, position) == [g EXCEPT !.horizontal_tabstops = @ \ {position}]

clear_all_tabstops(g) == [g EXCEPT !.horizontal_tabstops = {}]

save_cursor_position(g) == [g EXCEPT !.saved_cursor_position = Some(g.cursor)]

restore_cursor_position(g) ==
    IF g.saved_cursor_position # None
    THEN [g EXCEPT !.cursor = Unwrap(g.saved_cursor_position)]
    ELSE g

\* the rows the loops of the three functions below look at: up to the cursor's
Upto(g) == Min(Len(g.viewport), g.cursor.y + 1)

cursor_canonical_line_index(g) ==
    LET traversed == Cardinality({i \in 1..Upto(g) : g.viewport[i].is_canonical})
    IN  IF traversed = 0 THEN 0 ELSE traversed - 1

cursor_index_in_canonical_line(g) ==
    IF ~cursor_row_exists(g) THEN 0
    ELSE LET canonicals == {i \in 0..g.cursor.y : g.viewport[i + 1].is_canonical}
             canonical_line_index ==
                 IF canonicals = {} THEN 0
                 ELSE CHOOSE i \in canonicals : \A j \in canonicals : j <= i
         IN  (g.cursor.y - canonical_line_index) + g.cursor.x

canonical_line_y_coordinates(g, canonical_line_index) ==
    LET found == {i \in 0..(Len(g.viewport) - 1) :
                    /\ g.viewport[i + 1].is_canonical
                    /\ Cardinality({j \in 0..i : g.viewport[j + 1].is_canonical})
                         = canonical_line_index + 1}
    IN  IF found = {} THEN 0 ELSE CHOOSE i \in found : TRUE

scroll_up_one_line(g) ==
    IF g.lines_above # <<>> /\ Len(g.viewport) = g.height
    THEN IF g.viewport = <<>> THEN Fault(g, "panic") ELSE
         LET line_to_push_down == g.viewport[Len(g.viewport)]
             line_to_insert_at_viewport_top == g.lines_above[Len(g.lines_above)]
         IN  [g EXCEPT !.lines_below = <<line_to_push_down>> \o @,
                       !.lines_above = Take(@, Len(@) - 1),
                       !.viewport = <<line_to_insert_at_viewport_top>>
                                        \o Take(@, Len(@) - 1)]
    ELSE g

scroll_down_one_line(g) ==
    IF g.lines_below # <<>> /\ Len(g.viewport) = g.height
    THEN IF g.viewport = <<>> THEN Fault(g, "panic") ELSE
         LET line_to_push_up == g.viewport[1]
             shifted == [g EXCEPT !.viewport = Append(Tail(@), g.lines_below[1]),
                                  !.lines_below = Tail(@)]
         IN  IF line_to_push_up.is_canonical
             THEN [shifted EXCEPT !.lines_above = bounded_push(@, line_to_push_up)]
             ELSE IF g.lines_above = <<>> THEN Fault(g, "panic")
             ELSE LET last_line_above == g.lines_above[Len(g.lines_above)]
                      joined == [last_line_above EXCEPT
                                    !.columns = @ \o line_to_push_up.columns]
                  IN  [shifted EXCEPT !.lines_above =
                          bounded_push(Take(@, Len(@) - 1), joined)]
    ELSE g

(***************************************************************************)
(* Grid::change_size (grid.rs 385-518).                                    *)
(***************************************************************************)
\* The first loop: the viewport's rows joined into canonical lines.  The
\* loop gives up (corrupted) on a wrapped row that has no line to join.
join_canonical_lines(g) ==
    FoldSeq(LAMBDA acc, row :
                IF acc.corrupted THEN acc
                ELSE IF ~row.is_canonical /\ acc.lines = <<>> /\ acc.lines_above # <<>>
                THEN LET first_line_above == acc.lines_above[Len(acc.lines_above)]
                     IN  [acc EXCEPT
                            !.lines = <<[first_line_above EXCEPT
                                            !.columns = @ \o row.columns]>>,
                            !.lines_above = Take(@, Len(@) - 1),
                            !.index = @ + 1]
                ELSE IF row.is_canonical
                THEN [acc EXCEPT !.lines = Append(@, row)]
                ELSE IF acc.lines # <<>>
                THEN [acc EXCEPT !.lines[Len(acc.lines)].columns = @ \o row.columns]
                ELSE [acc EXCEPT !.corrupted = TRUE],
            [lines |-> <<>>, lines_above |-> g.lines_above,
             index |-> cursor_canonical_line_index(g), corrupted |-> FALSE],
            g.viewport)

\* The while loop that cuts one canonical line into rows of new_columns.
\* It does not terminate when drain_until takes nothing from a line that
\* is wider than new_columns.
RECURSIVE wrap_canonical_line(_, _, _, _)
wrap_canonical_line(canonical_line, is_canonical, new_columns, parts) ==
    IF canonical_line.columns = <<>> THEN [parts |-> parts, hang |-> FALSE]
    ELSE LET drained == IF Row_width(canonical_line) > new_columns
                        THEN drain_until(canonical_line, new_columns)
                        ELSE <<canonical_line.columns,
                               [canonical_line EXCEPT !.columns = <<>>]>>
             row == IF parts = <<>> /\ is_canonical
                    THEN canonical(from_columns(drained[1]))
                    ELSE from_columns(drained[1])
         IN  IF drained[1] = <<>> THEN [parts |-> parts, hang |-> TRUE]
             ELSE wrap_canonical_line(drained[2], is_canonical, new_columns,
                                      Append(parts, row))

wrap_canonical_lines(lines, new_columns) ==
    FoldSeq(LAMBDA acc, canonical_line :
                LET wrapped == wrap_canonical_line(canonical_line,
                                  canonical_line.is_canonical, new_columns,
                                  IF canonical_line.columns = <<>>
                                  THEN <<canonical(Row_new)>> ELSE <<>>)
                IN  [rows |-> acc.rows \o wrapped.parts,
                     hang |-> acc.hang \/ wrapped.hang],
            [rows |-> <<>>, hang |-> FALSE], lines)

\* Rows are pulled from or pushed to the scrollback until the viewport has
\* `rows` rows, and cursor.y follows them.
fit_viewport(g, rows, new_columns) ==
    LET current_viewport_row_count == Len(g.viewport)
        row_count_to_transfer == current_viewport_row_count - rows
        pulled_down(t) ==
            IF Len(t.destination) < current_viewport_row_count
            THEN Fault(g, "underflow")
            ELSE [g EXCEPT !.lines_above = t.source,
                           !.viewport = t.destination,
                           !.cursor.y = @ + Len(t.destination)
                                           - current_viewport_row_count]
        pushed_up(t) ==
            IF t.panicked THEN Fault(g, "panic")
            ELSE [g EXCEPT !.viewport = t.source,
                           !.lines_above = t.destination,
                           !.cursor.y = IF row_count_to_transfer > @ THEN 0
                                        ELSE @ - row_count_to_transfer]
    IN  IF current_viewport_row_count < rows
        THEN pulled_down(transfer_rows_down(g.lines_above, g.viewport,
                            rows - current_viewport_row_count, None, Some(new_columns)))
        ELSE IF current_viewport_row_count > rows
        THEN pushed_up(transfer_rows_up(g.viewport, g.lines_above,
                            row_count_to_transfer, Some(new_columns), None))
        ELSE g

set_scroll_region_to_viewport_size(g) ==
    IF g.height = 0 THEN Fault(g, "underflow")
    ELSE [g EXCEPT !.scroll_region = Some(<<0, g.height - 1>>)]

\* the part under `if new_columns != self.width`; returned is TRUE when the
\* function returned from inside the first loop
change_size_columns(g, new_columns) ==
    LET with_cursor_x(fitted, new_cursor_x) ==
            [grid |-> IF Ok(fitted) THEN [fitted EXCEPT !.cursor.x = new_cursor_x]
                      ELSE fitted,
             returned |-> ~Ok(fitted)]
        with_cursor(rewrapped, canonical_line_index, index_in_line) ==
            with_cursor_x(
                fit_viewport([rewrapped EXCEPT !.cursor.y =
                                 canonical_line_y_coordinates(rewrapped, canonical_line_index)],
                             g.height, new_columns),
                (index_in_line \div new_columns) + (index_in_line % new_columns))
        with_wrapped(joined, wrapped) ==
            IF joined.corrupted
            THEN [grid |-> [g EXCEPT !.viewport = <<>>], returned |-> TRUE]
            ELSE IF wrapped.hang THEN [grid |-> Fault(g, "hang"), returned |-> TRUE]
            ELSE IF new_columns = 0 THEN [grid |-> Fault(g, "panic"), returned |-> TRUE]
            ELSE with_cursor([g EXCEPT !.lines_above = joined.lines_above,
                                       !.viewport = wrapped.rows],
                             joined.index, cursor_index_in_canonical_line(g))
        with_joined(joined) ==
            with_wrapped(joined, wrap_canonical_lines(joined.lines, new_columns))
    IN  with_joined(join_canonical_lines(g))

change_size(g, new_rows, new_columns) ==
    LET with_size(sized) ==
            IF sized.scroll_region # None THEN set_scroll_region_to_viewport_size(sized)
            ELSE sized
        after_rows(second) ==
            IF ~Ok(second) THEN second
            ELSE with_size([second EXCEPT !.height = new_rows, !.width = new_columns])
        after_columns(first) ==
            IF first.returned THEN first.grid
            ELSE after_rows(IF new_rows # g.height
                            THEN fit_viewport(first.grid, new_rows, new_columns)
                            ELSE first.grid)
    IN  after_columns(IF new_columns # g.width THEN change_size_columns(g, new_columns)
                      ELSE [grid |-> g, returned |-> FALSE])

as_character_lines(g) ==
    LET lines == [i \in 1..Len(g.viewport) |->
                    VecResize(g.viewport[i].columns,
                              SatSub(g.width, excess_width(g.viewport[i])),
                              EMPTY_TERMINAL_CHARACTER)]
    IN  IF Len(lines) < g.height
        THEN lines \o Repeat(Repeat(EMPTY_TERMINAL_CHARACTER, g.width),
                             g.height - Len(lines))
        ELSE lines

(***************************************************************************)
(* Grid: scrolling, lines and characters (grid.rs 547-772).                *)
(***************************************************************************)
\* `for _ in 0..count { op }`, stopping at a fault
Times(Op(_), g, count) ==
    LET f[k \in 0..count] ==
            IF k = 0 THEN g ELSE IF Ok(f[k - 1]) THEN Op(f[k - 1]) ELSE f[k - 1]
    IN  f[count]

blank_line(g, character) == canonical(from_columns(Repeat(character, g.width)))

move_viewport_up(g, count) == Times(scroll_up_one_line, g, count)

move_viewport_down(g, count) == Times(scroll_down_one_line, g, count)

\* a reset that leaves the viewport where the user scrolled it
reset_viewport_left_scrolled(g) == g

reset_viewport(g) == Times(scroll_down_one_line, g, Len(g.lines_below))

rotate_scroll_region_up_once(g) ==
    LET region == Unwrap(g.scroll_region)
        removed == IF region[2] < Len(g.viewport)
                   THEN VecRemove(g.viewport, region[2]) ELSE g.viewport
    IN  [g EXCEPT !.viewport =
            IF region[1] < Len(removed)
            THEN VecInsert(removed, region[1], blank_line(g, EMPTY_TERMINAL_CHARACTER))
            ELSE removed]

rotate_scroll_region_up(g, count) ==
    IF g.scroll_region # None THEN Times(rotate_scroll_region_up_once, g, count) ELSE g

rotate_scroll_region_down_once(g) ==
    LET region == Unwrap(g.scroll_region)
        removed == VecRemove(g.viewport, region[1])
    IN  IF region[1] >= Len(g.viewport) THEN Fault(g, "panic")
        ELSE IF Len(removed) > region[1]
        THEN IF region[2] > Len(removed) THEN Fault(g, "panic")
             ELSE [g EXCEPT !.viewport =
                     VecInsert(removed, region[2], blank_line(g, EMPTY_TERMINAL_CHARACTER))]
        ELSE [g EXCEPT !.viewport =
                Append(removed, blank_line(g, EMPTY_TERMINAL_CHARACTER))]

rotate_scroll_region_down(g, count) ==
    IF g.scroll_region # None THEN Times(rotate_scroll_region_down_once, g, count) ELSE g

fill_viewport(g, character) ==
    [g EXCEPT !.viewport = Repeat(blank_line(g, character), g.height)]

\* transfer_rows_up(&mut self.viewport, &mut self.lines_above, 1, Some(self.width), None)
push_top_row_to_scrollback(g) ==
    LET transferred(t) ==
            IF t.panicked THEN Fault(g, "panic")
            ELSE [g EXCEPT !.viewport = t.source, !.lines_above = t.destination]
    IN  transferred(transfer_rows_up(g.viewport, g.lines_above, 1, Some(g.width), None))

scroll_the_viewport(g) ==
    IF g.viewport = <<>> THEN g
    ELSE [g EXCEPT !.viewport = Append(Tail(@), blank_line(g, EMPTY_TERMINAL_CHARACTER))]

add_canonical_line(g) ==
    LET region == Unwrap(g.scroll_region)
        removed == VecRemove(g.viewport, region[1])
        padded == IF Len(g.viewport) <= g.cursor.y + 1
                  THEN [g EXCEPT !.viewport = Append(@, canonical(Row_new))]
                  ELSE g
    IN  IF g.scroll_region # None /\ g.cursor.y = region[2]
        THEN IF region[1] >= Len(g.viewport) THEN g
             ELSE IF Len(removed) >= region[2]
             THEN [g EXCEPT !.viewport =
                     VecInsert(removed, region[2], blank_line(g, EMPTY_TERMINAL_CHARACTER))]
             ELSE [g EXCEPT !.viewport =
                     Append(removed, blank_line(g, EMPTY_TERMINAL_CHARACTER))]
        ELSE IF g.height = 0 THEN Fault(padded, "underflow")
        ELSE IF g.cursor.y = g.height - 1 THEN push_top_row_to_scrollback(padded)
        ELSE [padded EXCEPT !.cursor.y = @ + 1]

move_cursor_to_beginning_of_line(g) == [g EXCEPT !.cursor.x = 0]

\* the None arm of viewport.get_mut(cursor.y): pad lines until the cursor
push_character_on_new_line(g, terminal_character) ==
    [g EXCEPT !.viewport =
        (@ \o Repeat(canonical(Row_new), SatSub(g.cursor.y, Len(g.viewport))))
            \o <<canonical(from_columns(<<terminal_character>>))>>]

insert_character_at_cursor_position(g, terminal_character) ==
    IF cursor_row_exists(g)
    THEN LET row == insert_character_at(cursor_row(g), terminal_character, g.cursor.x)
         IN  set_cursor_row(g, IF Len(row.columns) > g.width
                               THEN truncate(row, g.width) ELSE row)
    ELSE push_character_on_new_line(g, terminal_character)

add_character_at_cursor_position(g, terminal_character, max_width) ==
    IF cursor_row_exists(g)
    THEN LET row == IF g.insert_mode
                    THEN insert_character_at(cursor_row(g), terminal_character, g.cursor.x)
                    ELSE add_character_at(cursor_row(g), terminal_character, g.cursor.x)
         IN  set_cursor_row(g, truncate(row, max_width))
    ELSE push_character_on_new_line(g, terminal_character)

move_cursor_forward_until_edge(g, count) ==
    IF g.cursor.x > g.width THEN Fault(g, "underflow")
    ELSE [g EXCEPT !.cursor.x = @ + Min(count, g.width - g.cursor.x)]

\* the line wrap of add_character
wrap_cursor_to_next_line(g) ==
    LET home == [g EXCEPT !.cursor.x = 0]
        new_line(pushed) ==
            IF Ok(pushed) THEN [pushed EXCEPT !.viewport = Append(@, Row_new)]
            ELSE pushed
        next_line(down) ==
            IF Len(down.viewport) <= down.cursor.y
            THEN [down EXCEPT !.viewport = Append(@, Row_new)]
            ELSE down
    IN  IF g.height = 0 THEN Fault(home, "underflow")
        ELSE IF g.cursor.y = g.height - 1
        THEN new_line(push_top_row_to_scrollback(home))
        ELSE next_line([home EXCEPT !.cursor.y = @ + 1])

add_character(g, terminal_character) ==
    LET add(wrapped) ==
            IF ~Ok(wrapped) THEN wrapped
            ELSE move_cursor_forward_until_edge(
                    add_character_at_cursor_position(wrapped, terminal_character, wrapped.width),
                    char_width(terminal_character))
    IN  IF g.cursor.x >= g.width
        THEN IF g.disable_linewrap THEN g ELSE add(wrap_cursor_to_next_line(g))
        ELSE add(g)

(***************************************************************************)
(* Grid: clearing, the cursor and the scroll region (grid.rs 722-985).     *)
(***************************************************************************)
replace_characters_in_line_after_cursor(g, replace_with) ==
    IF ~cursor_row_exists(g) THEN Fault(g, "panic")
    ELSE set_cursor_row(g, replace_and_pad_end(cursor_row(g), g.cursor.x, g.width,
                                               replace_with))

replace_characters_in_line_before_cursor(g, replace_with) ==
    IF ~cursor_row_exists(g) THEN Fault(g, "panic")
    ELSE IF replace_and_pad_beginning_panics(cursor_row(g), g.cursor.x)
    THEN Fault(g, "panic")
    ELSE set_cursor_row(g, replace_and_pad_beginning(cursor_row(g), g.cursor.x,
                                                     replace_with))

clear_all_after_cursor(g, replace_with) ==
    IF cursor_row_exists(g)
    THEN LET truncated == set_cursor_row(g, truncate(cursor_row(g), g.cursor.x))
             replaced == replace_characters_in_line_after_cursor(truncated, replace_with)
         IN  [replaced EXCEPT !.viewport =
                [i \in 1..Len(@) |->
                    IF i - 1 >= g.cursor.y + 1
                    THEN replace_columns(@[i], Repeat(replace_with, g.width))
                    ELSE @[i]]]
    ELSE g

clear_all_before_cursor(g, replace_with) ==
    IF cursor_row_exists(g)
    THEN LET clear_above(replaced) ==
                 IF ~Ok(replaced) THEN replaced
                 ELSE [replaced EXCEPT !.viewport =
                        [i \in 1..Len(@) |->
                            IF i - 1 < g.cursor.y
                            THEN replace_columns(@[i], Repeat(replace_with, g.width))
                            ELSE @[i]]]
         IN  clear_above(replace_characters_in_line_before_cursor(g, replace_with))
    ELSE g

clear_cursor_line(g) ==
    IF ~cursor_row_exists(g) THEN Fault(g, "panic")
    ELSE set_cursor_row(g, truncate(cursor_row(g), 0))

clear_all(g, replace_with) ==
    IF ~cursor_row_exists(g) THEN Fault(g, "panic")
    ELSE [g EXCEPT !.viewport =
            [i \in 1..Len(@) |-> replace_columns(@[i], Repeat(replace_with, g.width))]]

move_cursor_to(g, x, y, pad_character) ==
    IF g.width = 0 THEN Fault(g, "underflow")
    ELSE IF g.scroll_region # None
    THEN LET region == Unwrap(g.scroll_region)
             y_offset == IF g.erasure_mode THEN region[1] ELSE 0
             moved == [g EXCEPT !.cursor.x = Min(g.width - 1, x),
                                !.cursor.y = Min(region[2], y + y_offset)]
         IN  pad_current_line_until(pad_lines_until(moved, moved.cursor.y, pad_character),
                                    moved.cursor.x)
    ELSE IF g.height = 0 THEN Fault(g, "underflow")
    ELSE LET moved == [g EXCEPT !.cursor.x = Min(g.width - 1, x),
                                !.cursor.y = Min(g.height - 1, y)]
         IN  pad_current_line_until(pad_lines_until(moved, moved.cursor.y, pad_character),
                                    moved.cursor.x)

InScrollRegion(g) ==
    /\ g.scroll_region # None
    /\ g.cursor.y >= Unwrap(g.scroll_region)[1]
    /\ g.cursor.y <= Unwrap(g.scroll_region)[2]

move_cursor_up(g, count) ==
    IF InScrollRegion(g)
    THEN [g EXCEPT !.cursor.y = Max(SatSub(@, count), Unwrap(g.scroll_region)[1])]
    ELSE [g EXCEPT !.cursor.y = IF @ < count THEN 0 ELSE @ - count]

move_cursor_up_with_scrolling_once(g, count) ==
    LET region == IF g.scroll_region # None THEN Unwrap(g.scroll_region)
                  ELSE <<0, g.height - 1>>
        current_line_index == g.cursor.y
        removed == IF region[2] < Len(g.viewport)
                   THEN VecRemove(g.viewport, region[2]) ELSE g.viewport
    IN  IF current_line_index = region[1]
        THEN IF current_line_index > Len(removed) THEN Fault(g, "panic")
             ELSE [g EXCEPT !.viewport = VecInsert(removed, current_line_index, Row_new)]
        ELSE IF current_line_index > region[1] /\ current_line_index <= region[2]
        THEN move_cursor_up(g, count)
        ELSE g

move_cursor_up_with_scrolling(g, count) ==
    IF g.scroll_region = None /\ g.height = 0 THEN Fault(g, "underflow")
    ELSE Times(LAMBDA h : move_cursor_up_with_scrolling_once(h, count), g, count)

move_cursor_down(g, count, pad_character) ==
    IF InScrollRegion(g)
    THEN [g EXCEPT !.cursor.y = Min(@ + count, Unwrap(g.scroll_region)[2])]
    ELSE IF g.height = 0 THEN Fault(g, "underflow")
    ELSE LET lines_to_add == IF g.cursor.y + count > g.height - 1
                             THEN (g.cursor.y + count) - (g.height - 1) ELSE 0
             moved == [g EXCEPT !.cursor.y = IF @ + count > g.height - 1
                                             THEN g.height - 1 ELSE @ + count]
             pad(added) ==
                 IF Ok(added) THEN pad_lines_until(added, added.cursor.y, pad_character)
                 ELSE added
         IN  pad(Times(add_canonical_line, moved, lines_to_add))

move_cursor_back(g, count) ==
    LET x == IF g.cursor.x = g.width THEN g.cursor.x - 1 ELSE g.cursor.x
    IN  IF g.cursor.x = g.width /\ g.width = 0 THEN Fault(g, "underflow")
        ELSE [g EXCEPT !.cursor.x = IF x < count THEN 0 ELSE x - count]

hide_cursor(g) == [g EXCEPT !.cursor.is_hidden = TRUE]

show_cursor(g) == [g EXCEPT !.cursor.is_hidden = FALSE]

set_scroll_region(g, top_line_index, bottom_line_index) ==
    [g EXCEPT !.scroll_region =
        Some(<<top_line_index,
               IF bottom_line_index # None THEN Unwrap(bottom_line_index) ELSE g.height>>)]

clear_scroll_region(g) == [g EXCEPT !.scroll_region = None]

delete_line_in_scroll_region(g, pad_character) ==
    LET region == Unwrap(g.scroll_region)
        removed == VecRemove(g.viewport, g.cursor.y)
    IN  IF g.cursor.y >= Len(g.viewport) THEN Fault(g, "panic")
        ELSE [g EXCEPT !.viewport =
                IF Len(removed) > region[2]
                THEN VecInsert(removed, region[2], blank_line(g, pad_character))
                ELSE Append(removed, blank_line(g, pad_character))]

delete_lines_in_scroll_region(g, count, pad_character) ==
    IF InScrollRegion(g)
    THEN Times(LAMBDA h : delete_line_in_scroll_region(h, pad_character), g, count)
    ELSE g

add_empty_line_in_scroll_region(g, pad_character) ==
    LET region == Unwrap(g.scroll_region)
        removed == IF region[2] < Len(g.viewport)
                   THEN VecRemove(g.viewport, region[2]) ELSE g.viewport
    IN  IF g.cursor.y > Len(removed) THEN Fault(g, "panic")
        ELSE [g EXCEPT !.viewport =
                VecInsert(removed, g.cursor.y, blank_line(g, pad_character))]

add_empty_lines_in_scroll_region(g, count, pad_character) ==
    IF InScrollRegion(g)
    THEN Times(LAMBDA h : add_empty_line_in_scroll_region(h, pad_character), g, count)
    ELSE g

move_cursor_to_column(g, column) ==
    pad_current_line_until([g EXCEPT !.cursor.x = column], column)

move_cursor_to_line(g, line, pad_character) ==
    IF g.height = 0 THEN Fault(g, "underflow")
    ELSE LET moved == [g EXCEPT !.cursor.y = Min(g.height - 1, line)]
         IN  pad_current_line_until(pad_lines_until(moved, moved.cursor.y, pad_character),
                                    moved.cursor.x)

replace_with_empty_chars(g, count) ==
    LET padded == pad_current_line_until(g, Min(g.width, g.cursor.x + count))
        replace_from(row, i) ==
            replace_character_at(row, EMPTY_TERMINAL_CHARACTER, g.cursor.x + i)
        f[k \in 0..count] == IF k = 0 THEN cursor_row(padded)
                             ELSE replace_from(f[k - 1], k - 1)
    IN  IF ~Ok(padded) THEN padded ELSE set_cursor_row(padded, f[count])

erase_character(row, x) ==
    LET deleted == delete_and_return_character(row, x)
        excess == IF deleted[2] = None THEN 0
                  ELSE SatSub(char_width(Unwrap(deleted[2])), 1)
        f[k \in 0..excess] ==
            IF k = 0 THEN deleted[1]
            ELSE insert_character_at(f[k - 1], EMPTY_TERMINAL_CHARACTER, x)
    IN  f[excess]

erase_characters(g, count) ==
    LET f[k \in 0..count] == IF k = 0 THEN cursor_row(g)
                             ELSE erase_character(f[k - 1], g.cursor.x)
    IN  IF ~cursor_row_exists(g) THEN Fault(g, "panic")
        ELSE set_cursor_row(g, f[count])

reset_terminal_state(g) ==
    [g EXCEPT !.lines_above = <<>>,
              !.lines_below = <<>>,
              !.viewport = <<canonical(Row_new)>>,
              !.alternative_lines_above_viewport_and_cursor = None,
              !.scroll_region = None,
              !.cursor = Cursor_new(0, 0),
              !.saved_cursor_position = None,
              !.erasure_mode = FALSE,
              !.disable_linewrap = FALSE]

set_preceding_character(g, terminal_character) ==
    [g EXCEPT !.preceding_char = Some(terminal_character)]

(***************************************************************************)
(* Grid as vte::Perform (grid.rs 987-1580): what the parser calls for a    *)
(* printable character, a control byte, a CSI sequence and an ESC          *)
(* sequence.  A CSI sequence is its final character c, its parameters and  *)
(* its first intermediate ("" when there is none); the arms that touch     *)
(* only styles, the cursor shape or the replies to the pty change nothing  *)
(* that is modelled here.                                                  *)
(***************************************************************************)
print(g, c) == add_character(set_preceding_character(g, c), c)

add_newline(g) == add_canonical_line(g)

execute(g, byte) ==
    CASE byte = 8 -> move_cursor_back(g, 1)
      [] byte = 9 -> advance_to_next_tabstop(g)
      [] byte \in {10, 11, 12} -> add_newline(g)
      [] byte = 13 -> move_cursor_to_beginning_of_line(g)
      [] OTHER -> g

\* next_param_or for the i-th call of the closure
param_or(params, i, default) ==
    IF i <= Len(params) /\ params[i] # 0 THEN params[i] ELSE default

\* params_iter.next().map(|param| param[0])
first_param(params) == IF params = <<>> THEN None ELSE Some(params[1])

enter_alternate_screen_without_cursor(g) ==
    [g EXCEPT !.alternative_lines_above_viewport_and_cursor =
                    Some(<<g.lines_above, g.viewport, Cursor_new(0, 0)>>),
              !.lines_above = <<>>,
              !.viewport = <<canonical(Row_new)>>,
              !.cursor = Cursor_new(0, 0)]

\* CSI ? 1049 h
enter_alternate_screen(g) ==
    [g EXCEPT !.alternative_lines_above_viewport_and_cursor =
                    Some(<<g.lines_above, g.viewport, g.cursor>>),
              !.lines_above = <<>>,
              !.viewport = <<canonical(Row_new)>>,
              !.cursor = Cursor_new(0, 0)]

\* CSI ? 1049 l
leave_alternate_screen(g) ==
    LET alternative == Unwrap(g.alternative_lines_above_viewport_and_cursor)
        swapped == IF g.alternative_lines_above_viewport_and_cursor # None
                   THEN [g EXCEPT !.lines_above = alternative[1],
                                  !.viewport = alternative[2],
                                  !.cursor = alternative[3]]
                   ELSE g
    IN  change_size([swapped EXCEPT !.alternative_lines_above_viewport_and_cursor = None],
                    g.height, g.width)

\* DECCOLM, set or reset: only its side effects
deccolm(g) ==
    LET cleared == clear_all([g EXCEPT !.scroll_region = None], EMPTY_TERMINAL_CHARACTER)
    IN  IF Ok(cleared) THEN [cleared EXCEPT !.cursor.x = 0, !.cursor.y = 0] ELSE cleared

csi_l(g, params, intermediate) ==
    IF intermediate = "?"
    THEN CASE first_param(params) = Some(1049) -> leave_alternate_screen(g)
           [] first_param(params) = Some(25) -> hide_cursor(g)
           [] first_param(params) = Some(3) -> deccolm(g)
           [] first_param(params) = Some(6) -> [g EXCEPT !.erasure_mode = FALSE]
           [] first_param(params) = Some(7) -> [g EXCEPT !.disable_linewrap = TRUE]
           [] OTHER -> g
    ELSE IF first_param(params) = Some(4) THEN [g EXCEPT !.insert_mode = FALSE]
    ELSE g

csi_h(g, params, intermediate) ==
    IF intermediate = "?"
    THEN CASE first_param(params) = Some(25) -> show_cursor(g)
           [] first_param(params) = Some(1049) -> enter_alternate_screen(g)
           [] first_param(params) = Some(3) -> deccolm(g)
           [] first_param(params) = Some(6) -> [g EXCEPT !.erasure_mode = TRUE]
           [] first_param(params) = Some(7) -> [g EXCEPT !.disable_linewrap = FALSE]
           [] OTHER -> g
    ELSE IF first_param(params) = Some(4) THEN [g EXCEPT !.insert_mode = TRUE]
    ELSE g

csi_r(g, params) ==
    IF Len(params) > 1
    THEN LET top == SatSub(param_or(params, 1, 1), 1)
             bottom == IF params[2] # 0 THEN Some(SatSub(params[2], 1)) ELSE None
             region_set == set_scroll_region(g, top, bottom)
         IN  IF g.erasure_mode
             THEN LET moved == move_cursor_to_line(region_set, top, EMPTY_TERMINAL_CHARACTER)
                  IN  IF Ok(moved) THEN move_cursor_to_beginning_of_line(moved) ELSE moved
             ELSE region_set
    ELSE clear_scroll_region(g)

csi_K(g, params) ==
    CASE first_param(params) = Some(0) ->
            replace_characters_in_line_after_cursor(g, EMPTY_TERMINAL_CHARACTER)
      [] first_param(params) = Some(1) ->
            replace_characters_in_line_before_cursor(g, EMPTY_TERMINAL_CHARACTER)
      [] first_param(params) = Some(2) -> clear_cursor_line(g)
      [] OTHER -> g

csi_J(g, params) ==
    CASE first_param(params) = Some(0) -> clear_all_after_cursor(g, EMPTY_TERMINAL_CHARACTER)
      [] first_param(params) = Some(1) -> clear_all_before_cursor(g, EMPTY_TERMINAL_CHARACTER)
      [] first_param(params) = Some(2) -> fill_viewport(g, EMPTY_TERMINAL_CHARACTER)
      [] OTHER -> g

csi_dispatch(g, params, intermediate, c) ==
    CASE c \in {"C", "a"} -> move_cursor_forward_until_edge(g, param_or(params, 1, 1))
      [] c = "K" -> csi_K(g, params)
      [] c = "J" -> csi_J(g, params)
      [] c \in {"H", "f"} ->
            move_cursor_to(g, SatSub(param_or(params, 2, 1), 1),
                           SatSub(param_or(params, 1, 1), 1), EMPTY_TERMINAL_CHARACTER)
      [] c = "A" -> move_cursor_up(g, param_or(params, 1, 1))
      [] c \in {"B", "e", "E"} ->
            move_cursor_down(g, param_or(params, 1, 1), EMPTY_TERMINAL_CHARACTER)
      [] c = "D" -> move_cursor_back(g, param_or(params, 1, 1))
      [] c = "l" -> csi_l(g, params, intermediate)
      [] c = "h" -> csi_h(g, params, intermediate)
      [] c = "r" -> csi_r(g, params)
      [] c = "M" -> delete_lines_in_scroll_region(g, param_or(params, 1, 1),
                                                  EMPTY_TERMINAL_CHARACTER)
      [] c = "L" -> add_empty_lines_in_scroll_region(g, param_or(params, 1, 1),
                                                     EMPTY_TERMINAL_CHARACTER)
      \* "grave" stands for the grave accent, the other final character of this arm
      [] c \in {"G", "grave"} -> move_cursor_to_column(g, SatSub(param_or(params, 1, 1), 1))
      [] c = "g" -> IF param_or(params, 1, 0) = 0 THEN clear_tabstop(g, g.cursor.x)
                    ELSE IF param_or(params, 1, 0) = 3 THEN clear_all_tabstops(g)
                    ELSE g
      [] c = "d" -> move_cursor_to_line(g, SatSub(param_or(params, 1, 1), 1),
                                        EMPTY_TERMINAL_CHARACTER)
      [] c = "P" -> erase_characters(g, param_or(params, 1, 1))
      [] c = "X" -> replace_with_empty_chars(g, param_or(params, 1, 1))
      [] c = "T" -> rotate_scroll_region_up(g, param_or(params, 1, 1))
      [] c = "S" -> rotate_scroll_region_down(g, param_or(params, 1, 1))
      [] c = "s" -> save_cursor_position(g)
      [] c = "u" -> restore_cursor_position(g)
      [] c = "@" -> Times(LAMBDA h : insert_character_at_cursor_position(
                                        h, EMPTY_TERMINAL_CHARACTER),
                          g, param_or(params, 1, 1))
      [] c = "b" -> IF g.preceding_char # None
                    THEN Times(LAMBDA h : add_character(h, Unwrap(g.preceding_char)),
                               g, param_or(params, 1, 1))
                    ELSE g
      [] c = "F" -> move_cursor_to_beginning_of_line(
                        move_cursor_up(g, param_or(params, 1, 1)))
      [] c = "I" -> Times(advance_to_next_tabstop, g, param_or(params, 1, 1))
      [] c = "Z" -> Times(move_to_previous_tabstop, g, param_or(params, 1, 1))
      [] OTHER -> g

esc_dispatch(g, intermediate, byte) ==
    CASE byte = "D" /\ intermediate = "" -> add_newline(g)
      [] byte = "E" /\ intermediate = "" ->
            LET to_beginning(added) ==
                    IF Ok(added) THEN move_cursor_to_beginning_of_line(added) ELSE added
            IN  to_beginning(add_newline(g))
      [] byte = "M" /\ intermediate = "" -> move_cursor_up_with_scrolling(g, 1)
      [] byte = "c" /\ intermediate = "" -> reset_terminal_state(g)
      [] byte = "H" /\ intermediate = "" -> set_horizontal_tabstop(g)
      [] byte = "7" /\ intermediate = "" -> save_cursor_position(g)
      [] byte = "8" /\ intermediate = "" -> restore_cursor_position(g)
      [] byte = "8" /\ intermediate = "#" -> fill_viewport(g, "E")
      [] OTHER -> g

(***************************************************************************)
(* The grid state machine: the grid of one pane, fed what the pty thread   *)
(* parses from the pane's output and resized and scrolled by the screen.   *)
(* `last` records the step just taken: its kind (op), its input (arg), the *)
(* grid before it (before), the number of resizes so far (resizes), the    *)
(* input of the first resize (first_resize) and the grid before the first  *)
(* resize (origin).                                                        *)
(***************************************************************************)
MaxGridOps == 4

\* the pane's size when it is opened
grid_ws == [rows |-> 2, columns |-> 3]

Csi(c, params, intermediate) == [c |-> c, params |-> params, intermediate |-> intermediate]

Esc(intermediate, byte) == [intermediate |-> intermediate, byte |-> byte]

GridStart(rows, columns) ==
    /\ grid = Grid_new(rows, columns)
    /\ last = [op |-> "new", arg |-> <<rows, columns>>,
               before |-> Grid_new(rows, columns), resizes |-> 0,
               first_resize |-> <<rows, columns>>, origin |-> Grid_new(rows, columns)]
    /\ nops = 0

GridInit == GridStart(grid_ws.rows, grid_ws.columns)

GridDo(op, arg, g2) ==
    /\ Ok(grid)
    /\ nops < MaxGridOps
    /\ grid' = g2
    /\ nops' = nops + 1
    /\ last' = [op |-> op, arg |-> arg, before |-> grid,
                resizes |-> IF op = "resize" THEN last.resizes + 1 ELSE last.resizes,
                first_resize |-> IF op = "resize" /\ last.resizes = 0 THEN arg
                                 ELSE last.first_resize,
                origin |-> IF op = "resize" /\ last.resizes = 0 THEN grid
                           ELSE last.origin]
    /\ UNCHANGED <<tab, next_pid, screen, session>>

PerformPrint(chars) == \E c \in chars : GridDo("print", c, print(grid, c))

Execute(bytes) == \E byte \in bytes : GridDo("execute", byte, execute(grid, byte))

CsiDispatch(sequences) ==
    \E q \in sequences :
        GridDo("csi", q, csi_dispatch(grid, q.params, q.intermediate, q.c))

EscDispatch(sequences) ==
    \E q \in sequences : GridDo("esc", q, esc_dispatch(grid, q.intermediate, q.byte))

ChangeSize(sizes) ==
    \E size \in sizes : GridDo("resize", size, change_size(grid, size[1], size[2]))

ScrollUp == GridDo("scroll_up", 1, move_viewport_up(grid, 1))

ScrollDown == GridDo("scroll_down", 1, move_viewport_down(grid, 1))

TabIdle == tab = Tab_new /\ next_pid = 2 /\ ScreenIdle

(***************************************************************************)
(* Specifications.                                                         *)
(***************************************************************************)
\* the first pane's grid, which the layout leaves alone
GridIdle == grid = Grid_new(full_screen_ws.rows, full_screen_ws.columns) /\ nops = 0

\* a new tab with its first pane
LayoutInit == TabInit /\ GridIdle

\* Opening and closing panes, to any depth the pane ids allow.
LayoutSpec == LayoutInit /\ [][LayoutNext]_vars

\* Opening, closing and resizing panes, up to MaxTabOps instructions.
TabSpec == LayoutInit /\ [][TabNext]_vars

Characters == {"a", "W"}

ControlBytes == {8, 9, 10, 13}

CsiSequences ==
    {Csi("G", <<9>>, ""), Csi("H", <<9, 9>>, ""), Csi("H", <<>>, ""),
     Csi("r", <<1, 0>>, ""), Csi("r", <<>>, ""), Csi("A", <<>>, ""),
     Csi("B", <<>>, ""), Csi("C", <<>>, ""), Csi("K", <<1>>, ""),
     Csi("J", <<2>>, ""), Csi("M", <<>>, ""), Csi("L", <<>>, ""),
     Csi("S", <<>>, ""), Csi("T", <<>>, ""), Csi("P", <<>>, ""),
     Csi("h", <<1049>>, "?"), Csi("l", <<1049>>, "?"), Csi("h", <<6>>, "?")}

EscSequences == {Esc("", "D"), Esc("", "M"), Esc("", "c"), Esc("#", "8")}

Sizes == {<<2, 3>>, <<2, 2>>, <<3, 3>>, <<1, 4>>}

GridNext ==
    \/ PerformPrint(Characters)
    \/ Execute(ControlBytes)
    \/ CsiDispatch(CsiSequences)
    \/ EscDispatch(EscSequences)
    \/ ChangeSize(Sizes)
    \/ ScrollUp
    \/ ScrollDown

\* the grid of a new 2x3 pane
PaneInit == TabIdle /\ GridInit

\* Any input to the grid of a 2x3 pane, up to MaxGridOps steps.
GridSpec == PaneInit /\ [][GridNext]_vars

GridOk == Ok(grid)

FeedNext ==
    \/ PerformPrint(Characters)
    \/ Execute(ControlBytes)
    \/ CsiDispatch(CsiSequences)
    \/ EscDispatch(EscSequences)

\* Only what the parser feeds the grid of a 2x3 pane, no resize, no scrolling.
FeedSpec == PaneInit /\ [][FeedNext]_vars

(***************************************************************************)
(* Properties of the grid.                                                 *)
(***************************************************************************)
\* C1: after any sequence of printable characters, control bytes, CSI and
\* ESC sequences interleaved with resizes, the cursor satisfies
\* cursor.y < height and cursor.x <= width.
C1_CursorInBounds ==
    Ok(grid) => grid.cursor.y < grid.height /\ grid.cursor.x <= grid.width

\* C2: after any sequence of inputs from the parser, as_character_lines
\* returns exactly `height` rows, each of exactly `width` cells (a wide
\* character counted as the cells it occupies).
C2_RenderedSize ==
    Ok(grid) =>
        LET lines == as_character_lines(grid)
        IN  /\ Len(lines) = grid.height
            /\ \A i \in 1..Len(lines) :
                    Len(lines[i]) + cells_excess(lines[i]) = grid.width

C2_RowCount == Ok(grid) => Len(as_character_lines(grid)) = grid.height

\* the cells of a row without its trailing empty cells
RECURSIVE strip_trailing_empty_cells(_)
strip_trailing_empty_cells(columns) ==
    IF columns # <<>> /\ columns[Len(columns)] = EMPTY_TERMINAL_CHARACTER
    THEN strip_trailing_empty_cells(Take(columns, Len(columns) - 1))
    ELSE columns

RECURSIVE strip_trailing_empty_lines(_)
strip_trailing_empty_lines(lines) ==
    IF lines # <<>> /\ lines[Len(lines)] = <<>>
    THEN strip_trailing_empty_lines(Take(lines, Len(lines) - 1))
    ELSE lines

\* The content of the scrollback followed by the viewport, one cell sequence
\* per canonical line: a wrapped row continues the line before it.  Trailing
\* empty cells of a line and trailing empty lines are left out.
CanonicalLines(g) ==
    LET joined == FoldSeq(LAMBDA acc, row :
                              IF row.is_canonical \/ acc = <<>>
                              THEN Append(acc, row.columns)
                              ELSE [acc EXCEPT ![Len(acc)] = @ \o row.columns],
                          <<>>, g.lines_above \o g.viewport)
    IN  strip_trailing_empty_lines(
            [i \in 1..Len(joined) |-> strip_trailing_empty_cells(joined[i])])

RewrapNext ==
    \/ last.resizes = 0 /\ PerformPrint(Characters)
    \/ last.resizes = 0 /\ Execute(ControlBytes)
    \/ last.resizes = 0 /\ CsiDispatch(CsiSequences)
    \/ last.resizes = 0 /\ EscDispatch(EscSequences)
    \/ last.resizes < 2 /\ ChangeSize(Sizes)

\* Input from the parser to the grid of a fresh 2x3 pane, then two resizes.
RewrapSpec == PaneInit /\ [][RewrapNext]_vars

\* C4: feeding bytes to a grid of width W, resizing it to a width w and then
\* back to W (the height kept) leaves, per canonical line and ignoring
\* trailing empty cells, the cell sequence of scrollback and viewport that
\* the grid had before the two resizes.
C4_RewrapRoundTrip ==
    (/\ Ok(grid) /\ last.op = "resize" /\ last.resizes = 2
     /\ last.first_resize[1] = last.origin.height
     /\ last.arg = <<last.origin.height, last.origin.width>>)
        => CanonicalLines(grid) = CanonicalLines(last.origin)

\* C5: resize(h, w) called twice in a row: the second call changes nothing.
C5_ResizeTwice ==
    [][(last.op = "resize" /\ last'.op = "resize" /\ last'.arg = last.arg)
            => grid' = grid]_vars

\* the size of the pane in ScrollbackSpec: one row, so that every newline
\* moves a row to the scrollback
scroll_ws == [rows |-> 1, columns |-> 2]

EnterAlternateScreen == Csi("h", <<1049>>, "?")

LeaveAlternateScreen == Csi("l", <<1049>>, "?")

ScrollbackNext ==
    \/ PerformPrint({"a", "b"})
    \/ Execute({10})
    \/ CsiDispatch({EnterAlternateScreen, LeaveAlternateScreen})
    \/ ChangeSize({<<1, 2>>, <<2, 2>>, <<1, 3>>})
    \/ ScrollUp
    \/ ScrollDown

\* Text, newlines, the alternate screen, resizes and scrolling in a 1x2 pane.
ScrollbackInit == TabIdle /\ GridStart(scroll_ws.rows, scroll_ws.columns)

ScrollbackSpec == ScrollbackInit /\ [][ScrollbackNext]_vars

\* a newline with the cursor on the last row of the screen, outside any
\* scroll region, moves the viewport's first row g.viewport[1] to the scrollback
NewlinePushes(g, l) ==
    /\ l.op = "execute" /\ l.arg = 10
    /\ g.scroll_region = None
    /\ g.cursor.y = g.height - 1
    /\ g.viewport[1].is_canonical

\* C3: lines_above never holds more than SCROLL_BACK rows, and a row pushed
\* onto a full scrollback takes the place of the oldest row, the one at the
\* front: the other rows move up by one and the pushed row is the last.
C3_ScrollbackBounded ==
    /\ [](Len(grid.lines_above) <= SCROLL_BACK)
    /\ [][(NewlinePushes(grid, last') /\ Len(grid.lines_above) = SCROLL_BACK)
            => /\ Len(grid'.lines_above) = SCROLL_BACK
               /\ Take(grid'.lines_above, SCROLL_BACK - 1) = Tail(grid.lines_above)
               /\ grid'.lines_above[SCROLL_BACK] = grid.viewport[1]]_vars

C3_Witness ==
    /\ NewlinePushes(last.before, last)
    /\ Len(last.before.lines_above) = SCROLL_BACK
    /\ last.before.lines_above[1] # last.before.lines_above[SCROLL_BACK]
    /\ grid.lines_above = Append(Tail(last.before.lines_above), last.before.viewport[1])

\* C6: CSI ?1049h directly followed by CSI ?1049l restores lines_above,
\* viewport and cursor to their values before the CSI ?1049h.
C6_AlternateScreenRoundTrip ==
    [][(/\ last.op = "csi" /\ last.arg = EnterAlternateScreen
        /\ last'.op = "csi" /\ last'.arg = LeaveAlternateScreen)
            => /\ grid'.lines_above = last.before.lines_above
               /\ grid'.viewport = last.before.viewport
               /\ grid'.cursor = last.before.cursor]_vars

\* back from the alternate screen to a screen with scrollback, text and a
\* cursor that is not at the origin
C6_Witness ==
    /\ last.op = "csi" /\ last.arg = LeaveAlternateScreen
    /\ last.before.alternative_lines_above_viewport_and_cursor # None
    /\ last.before.lines_above = <<>>
    /\ last.before.viewport = <<canonical(Row_new)>>
    /\ last.before.cursor = Cursor_new(0, 0)
    /\ grid.lines_above # <<>>
    /\ grid.cursor # Cursor_new(0, 0)
    /\ grid.alternative_lines_above_viewport_and_cursor = None

(***************************************************************************)
(* Focus (tab.rs 136-180, 798-808, 1785-1987).  move_focus walks the       *)
(* selectable panes in map order; focus_next_pane and focus_previous_pane  *)
(* sort them by position, top to bottom and then left to right; the        *)
(* directional moves pick, among the selectable panes directly next to the *)
(* active pane that overlap it, the one that was active last.  None of     *)
(* them acts in fullscreen.                                                *)
(***************************************************************************)
get_selectable_panes(t) == {q \in DOMAIN t.panes : t.panes[q].selectable}

has_selectable_panes(t) == get_selectable_panes(t) # {}

is_directly_right_of(p, other) == p.x = other.x + other.columns + 1

is_directly_left_of(p, other) == p.x + p.columns + 1 = other.x

is_directly_below(p, other) == p.y = other.y + other.rows + 1

is_directly_above(p, other) == p.y + p.rows + 1 = other.y

horizontally_overlaps_with(p, other) ==
    \/ (p.y >= other.y /\ p.y <= other.y + other.rows)
    \/ (p.y + p.rows <= other.y + other.rows /\ p.y + p.rows > other.y)
    \/ (p.y <= other.y /\ p.y + p.rows >= other.y + other.rows)
    \/ (other.y <= p.y /\ other.y + other.rows >= p.y + p.rows)

vertically_overlaps_with(p, other) ==
    \/ (p.x >= other.x /\ p.x <= other.x + other.columns)
    \/ (p.x + p.columns <= other.x + other.columns /\ p.x + p.columns > other.x)
    \/ (p.x <= other.x /\ p.x + p.columns >= other.x + other.columns)
    \/ (other.x <= p.x /\ other.x + other.columns >= p.x + p.columns)

\* Iterator::position: the 0-based index of id in ids, None when absent
position(ids, id) ==
    IF id \in Range(ids) THEN Some((CHOOSE i \in 1..Len(ids) : ids[i] = id) - 1) ELSE None

\* sort_by y, then x; the sort is stable over the map's id order
sort_by_y_then_x(t, S) ==
    SortedBy(S, [q \in S |-> t.panes[q].y * (full_screen_ws.columns + 1) + t.panes[q].x])

\* Iterator::max_by_key over the map's id order: the last of the maxima
max_by_key_active_at(t, S) ==
    IF S = {} THEN None
    ELSE Some(CHOOSE q \in S : \A r \in S :
                \/ t.panes[r].active_at < t.panes[q].active_at
                \/ (t.panes[r].active_at = t.panes[q].active_at /\ r <= q))

focus_after(t, ids, active_id) ==
    LET at == Unwrap(position(ids, active_id))
    IN  IF at + 1 < Len(ids) THEN ids[at + 2] ELSE ids[1]

focus_before(t, ids, active_id) ==
    LET at == Unwrap(position(ids, active_id))
    IN  IF at = 0 THEN ids[Len(ids)] ELSE ids[at]

cycle_focus(t, ids, Pick(_, _, _)) ==
    IF ~has_selectable_panes(t) THEN t
    ELSE IF t.fullscreen_is_active THEN t
    ELSE IF t.active_terminal = None THEN Panic(t)
    ELSE IF position(ids, Unwrap(t.active_terminal)) = None THEN Panic(t)
    ELSE render([t EXCEPT !.active_terminal = Some(Pick(t, ids, Unwrap(t.active_terminal)))])

move_focus(t) == cycle_focus(t, IdsInOrder(get_selectable_panes(t)), focus_after)

focus_next_pane_by_id(t) ==
    cycle_focus(t, IdsInOrder(get_selectable_panes(t)), focus_after)

focus_next_pane(t) ==
    cycle_focus(t, sort_by_y_then_x(t, get_selectable_panes(t)), focus_after)

focus_previous_pane(t) ==
    cycle_focus(t, sort_by_y_then_x(t, get_selectable_panes(t)), focus_before)

next_index(t, Directly(_, _), Overlaps(_, _)) ==
    LET active == Unwrap(get_active_pane(t))
    IN  max_by_key_active_at(t, {q \in get_selectable_panes(t) :
            Directly(t.panes[q], active) /\ Overlaps(t.panes[q], active)})

\* move_focus_left and move_focus_right: the tab and the boolean returned;
\* the tab is rendered only when the focus moved
move_focus_sideways(t, Directly(_, _)) ==
    IF ~has_selectable_panes(t) THEN [tab |-> t, moved |-> FALSE]
    ELSE IF t.fullscreen_is_active THEN [tab |-> t, moved |-> FALSE]
    ELSE IF get_active_pane(t) = None THEN [tab |-> Panic(t), moved |-> FALSE]
    ELSE IF next_index(t, Directly, horizontally_overlaps_with) # None
    THEN [tab |-> render([t EXCEPT !.active_terminal =
                            next_index(t, Directly, horizontally_overlaps_with)]),
          moved |-> TRUE]
    ELSE [tab |-> t, moved |-> FALSE]

move_focus_left(t) == move_focus_sideways(t, is_directly_left_of)

move_focus_right(t) == move_focus_sideways(t, is_directly_right_of)

\* move_focus_up and move_focus_down render whether or not the focus moved
move_focus_upright(t, Directly(_, _)) ==
    IF ~has_selectable_panes(t) THEN t
    ELSE IF t.fullscreen_is_active THEN t
    ELSE IF get_active_pane(t) = None THEN Panic(t)
    ELSE IF next_index(t, Directly, vertically_overlaps_with) # None
    THEN render([t EXCEPT !.active_terminal =
                    next_index(t, Directly, vertically_overlaps_with)])
    ELSE render(t)

move_focus_down(t) == move_focus_upright(t, is_directly_below)

move_focus_up(t) == move_focus_upright(t, is_directly_above)

set_pane_selectable(t, id, selectable) ==
    IF id \notin DOMAIN t.panes THEN t
    ELSE LET set == [t EXCEPT !.panes[id].selectable = selectable]
         IN  IF t.active_terminal = Some(id) /\ ~selectable
             THEN [set EXCEPT !.active_terminal = next_active_pane(set, IdsInOrder(DOMAIN t.panes))]
             ELSE set

(***************************************************************************)
(* The instructions of the screen thread that move the focus, toggle       *)
(* fullscreen and write input, as steps that record in `last` the          *)
(* instruction handled (op), its argument (arg), the tab before the step   *)
(* (before) and what the handler reported (outcome).                       *)
(***************************************************************************)
Did(op, arg, before, outcome) ==
    [op |-> op, arg |-> arg, before |-> before, outcome |-> outcome]

Handle(op, arg, t2, outcome, opened) ==
    /\ Live(tab)
    /\ tab' = t2
    /\ last' = Did(op, arg, tab, outcome)
    /\ next_pid' = next_pid + opened
    /\ UNCHANGED <<grid, screen, session>>

OpenNewPane ==
    /\ next_pid <= MaxPid
    /\ Handle("new_pane", Some(next_pid), new_pane(tab, next_pid),
              OpenOutcome(tab, new_pane(tab, next_pid), next_pid), 1)

OpenHorizontalSplit ==
    /\ next_pid <= MaxPid
    /\ Handle("horizontal_split", Some(next_pid), horizontal_split(tab, next_pid),
              OpenOutcome(tab, horizontal_split(tab, next_pid), next_pid), 1)

OpenVerticalSplit ==
    /\ next_pid <= MaxPid
    /\ Handle("vertical_split", Some(next_pid), vertical_split(tab, next_pid),
              OpenOutcome(tab, vertical_split(tab, next_pid), next_pid), 1)

FocusNextPane == Handle("focus_next_pane", None, focus_next_pane(tab), "done", 0)

FocusPreviousPane == Handle("focus_previous_pane", None, focus_previous_pane(tab), "done", 0)

GrowRight ==
    Handle("resize_right", None, resize_right(tab), ResizeOutcome(tab, resize_right(tab)), 0)

GrowLeft ==
    Handle("resize_left", None, resize_left(tab), ResizeOutcome(tab, resize_left(tab)), 0)

FullscreenOutcome(t, t2) ==
    IF t2.fault # "none" THEN t2.fault
    ELSE IF t2.fullscreen_is_active = t.fullscreen_is_active THEN "unchanged"
    ELSE IF t2.fullscreen_is_active THEN "entered" ELSE "left"

ToggleActiveTerminalFullscreen ==
    Handle("toggle_active_pane_fullscreen", None, toggle_active_pane_fullscreen(tab),
           FullscreenOutcome(tab, toggle_active_pane_fullscreen(tab)), 0)

SetSelectable ==
    \E id \in 1..MaxPid, selectable \in BOOLEAN :
        /\ id < next_pid
        /\ Handle("set_pane_selectable", Some(<<id, selectable>>),
                  set_pane_selectable(tab, id, selectable), "done", 0)

CloseAPane ==
    \E id \in 1..MaxPid :
        /\ id < next_pid
        /\ Handle("close_pane", Some(id), Screen_render(close_pane(tab, id)),
                  close_strategy(leave_fullscreen(tab), id), 0)

SwitchFocus == Handle("move_focus", None, move_focus(tab), "done", 0)

MovedOutcome(moved) == IF moved THEN "moved" ELSE "stayed"

MoveFocusLeft ==
    Handle("move_focus_left", None, move_focus_left(tab).tab,
           MovedOutcome(move_focus_left(tab).moved), 0)

MoveFocusRight ==
    Handle("move_focus_right", None, move_focus_right(tab).tab,
           MovedOutcome(move_focus_right(tab).moved), 0)

MoveFocusDown ==
    Handle("move_focus_down", None, move_focus_down(tab),
           MovedOutcome(move_focus_down(tab).active_terminal # tab.active_terminal), 0)

MoveFocusUp ==
    Handle("move_focus_up", None, move_focus_up(tab),
           MovedOutcome(move_focus_up(tab).active_terminal # tab.active_terminal), 0)

\* a new tab with its first pane, the grid left alone
FocusInit ==
    /\ tab = Tab_new
    /\ next_pid = 2
    /\ last = Did("new", Some(1), Tab_new, "first")
    /\ GridIdle
    /\ ScreenIdle

ResizeNext ==
    /\ nops < MaxTabOps
    /\ \/ OpenNewPane
       \/ OpenHorizontalSplit
       \/ OpenVerticalSplit
       \/ FocusNextPane
       \/ GrowRight
       \/ GrowLeft
    /\ nops' = nops + 1

\* Opening panes, walking the focus and moving the active pane's sides,
\* up to MaxTabOps instructions.
ResizeSpec == FocusInit /\ [][ResizeNext]_vars

(***************************************************************************)
(* Properties of resize, fullscreen and focus.                             *)
(***************************************************************************)
NoLeftNeighbour(t) ==
    /\ get_active_pane(t) # None
    /\ pane_ids_directly_left_of(t, Unwrap(t.active_terminal)) = None

RightThenLeft ==
    /\ last.op = "resize_right" /\ last'.op = "resize_left"
    /\ NoLeftNeighbour(last.before)

SideBySide(t) ==
    /\ DOMAIN t.panes = {1, 2} /\ t.active_terminal = Some(1)
    /\ Geometry(t) = (1 :> [x |-> 0, y |-> 0, columns |-> 40, rows |-> 24]
                      @@ 2 :> [x |-> 41, y |-> 0, columns |-> 39, rows |-> 24])

FullscreenNext ==
    /\ nops < MaxFocusOps
    /\ \/ OpenNewPane
       \/ OpenHorizontalSplit
       \/ OpenVerticalSplit
       \/ ToggleActiveTerminalFullscreen
       \/ SetSelectable
       \/ CloseAPane
    /\ nops' = nops + 1

\* Opening and closing panes, marking panes selectable or not and toggling
\* fullscreen, up to MaxFocusOps instructions.
FullscreenSpec == FocusInit /\ [][FullscreenNext]_vars

Toggles == last'.op = "toggle_active_pane_fullscreen"

\* a toggle on a tab that is not in fullscreen and has an active pane and
\* at least one more pane
Enters ==
    /\ Toggles /\ ~tab.fullscreen_is_active
    /\ get_active_pane(tab) # None /\ Cardinality(DOMAIN tab.panes) >= 2

\* a toggle right after the toggle that entered fullscreen
LeavesAtOnce ==
    /\ Toggles
    /\ last.op = "toggle_active_pane_fullscreen" /\ last.outcome = "entered"

Overridden(t) == {q \in DOMAIN t.panes : t.panes[q].base # None}

\* C12: toggling fullscreen twice on a tab with at least two panes is the
\* identity on the layout: after entering, the active pane covers the whole
\* screen and no hidden pane is in the rendered frame; after leaving, the
\* hidden set is empty, fullscreen is off and every pane has the geometry
\* it had before entering.
C12_FullscreenTwice ==
    [][/\ (Enters =>
             /\ tab'.fullscreen_is_active
             /\ tab'.active_terminal = tab.active_terminal
             /\ position_and_size(Unwrap(get_active_pane(tab'))) = full_screen_ws
             /\ tab'.panes_to_hide # {}
             /\ rendered_panes(tab') = tab'.active_terminal)
       /\ (LeavesAtOnce =>
             /\ ~tab'.fullscreen_is_active
             /\ tab'.panes_to_hide = {}
             /\ rendered_panes(tab') = DOMAIN last.before.panes
             /\ Geometry(tab') = Geometry(last.before))]_vars

C12_Witness ==
    /\ last.op = "toggle_active_pane_fullscreen" /\ last.outcome = "left"
    /\ last.before.fullscreen_is_active
    /\ Cardinality(last.before.panes_to_hide) = 2
    /\ Cardinality(DOMAIN tab.panes) = 3
    /\ tab.panes_to_hide = {}

\* C13: on entering fullscreen, the hidden panes are exactly the selectable
\* panes other than the active pane; a pane that is not selectable is not
\* recorded as hidden.
C13_HidesSelectablePanes ==
    [][Enters => tab'.panes_to_hide = get_selectable_panes(tab) \ tab.active_terminal]_vars

OpensInFullscreen ==
    /\ last'.op \in {"new_pane", "horizontal_split", "vertical_split"}
    /\ tab.fullscreen_is_active

\* C14: new_pane, horizontal_split and vertical_split on a tab in
\* fullscreen leave fullscreen first: when they return fullscreen is off,
\* no pane is hidden, and the split was computed from the geometry the
\* active pane has without the override.
C14_SplitLeavesFullscreen ==
    [][OpensInFullscreen =>
          /\ tab'.fault = "none"
          /\ ~tab'.fullscreen_is_active
          /\ tab'.panes_to_hide = {}
          /\ Overridden(tab') = {}]_vars

Rejects ==
    /\ last'.op \in {"new_pane", "horizontal_split", "vertical_split"}
    /\ last'.outcome = "rejected"

RejectedAsNoOp ==
    /\ tab'.panes = tab.panes
    /\ tab'.active_terminal = tab.active_terminal
    /\ tab'.panes_to_hide = tab.panes_to_hide
    /\ tab'.fullscreen_is_active = tab.fullscreen_is_active
    /\ tab'.closed_ptys = Append(tab.closed_ptys, Unwrap(last'.arg))

LeftFullscreenOnly ==
    /\ ~tab'.fullscreen_is_active
    /\ tab'.panes_to_hide = {}
    /\ tab'.active_terminal = tab.active_terminal
    /\ DOMAIN tab'.panes = DOMAIN tab.panes
    /\ \A q \in DOMAIN tab.panes :
          position_and_size(tab'.panes[q]) =
              IF tab.active_terminal = Some(q)
              THEN position_and_size(WithoutOverride(tab.panes[q]))
              ELSE position_and_size(tab.panes[q])
    /\ tab'.closed_ptys = Append(tab.closed_ptys, Unwrap(last'.arg))

Grown(t, t2) ==
    {q \in DOMAIN t.panes \cap DOMAIN t2.panes :
        position_and_size(t2.panes[q]) # position_and_size(t.panes[q])}

\* the neighbours of the first side, in the order left, right, above,
\* below, on which the panes between the borders of pane id exist
FirstNeighbours(t, id) ==
    IF panes_to_the_left_between_aligning_borders(t, id) # None
    THEN Range(Unwrap(panes_to_the_left_between_aligning_borders(t, id)))
    ELSE IF panes_to_the_right_between_aligning_borders(t, id) # None
    THEN Range(Unwrap(panes_to_the_right_between_aligning_borders(t, id)))
    ELSE IF panes_above_between_aligning_borders(t, id) # None
    THEN Range(Unwrap(panes_above_between_aligning_borders(t, id)))
    ELSE IF panes_below_between_aligning_borders(t, id) # None
    THEN Range(Unwrap(panes_below_between_aligning_borders(t, id)))
    ELSE {}

\* the selectable pane of S that comes last in the map's order, if any
LastSelectable(t, S) ==
    {q \in S : /\ t.panes[q].selectable
               /\ \A r \in S : t.panes[r].selectable => r <= q}

\* the active pane is closed and a reflow strategy is applied
ClosesActive(t) ==
    /\ last'.op = "close_pane"
    /\ last'.outcome \in {"left", "right", "above", "below"}
    /\ t.active_terminal = last'.arg

ClosedInto(t, id) ==
    /\ DOMAIN tab'.panes = DOMAIN t.panes \ {id}
    /\ Grown(t, tab') = FirstNeighbours(t, id)
    /\ IF LastSelectable(tab', Grown(t, tab')) # {}
       THEN tab'.active_terminal = LastSelectable(tab', Grown(t, tab')) /\ ~tab'.closed
       ELSE tab'.closed

\* C16: when the active pane is closed and one of the four reflow
\* strategies is applied, the panes that absorb its space are those of the
\* first side, in the order left, right, above, below, whose preconditions
\* hold, and the new active pane is the last selectable pane among them.
C16_NextActivePane ==
    [][ClosesActive(leave_fullscreen(tab))
          => ClosedInto(leave_fullscreen(tab), Unwrap(last'.arg))]_vars

C16_Witness ==
    /\ last.op = "close_pane" /\ last.outcome = "left"
    /\ last.before.active_terminal = last.arg
    /\ Cardinality(Grown(last.before, tab)) = 2
    /\ \E q \in Grown(last.before, tab) : ~tab.panes[q].selectable
    /\ tab.active_terminal # None

FocusNext ==
    /\ nops < MaxFocusOps
    /\ \/ OpenNewPane
       \/ OpenHorizontalSplit
       \/ OpenVerticalSplit
       \/ SetSelectable
       \/ CloseAPane
       \/ SwitchFocus
       \/ FocusNextPane
       \/ FocusPreviousPane
       \/ MoveFocusLeft
       \/ MoveFocusRight
       \/ MoveFocusDown
       \/ MoveFocusUp
    /\ nops' = nops + 1

\* Opening and closing panes, marking panes selectable or not and moving
\* the focus, up to MaxFocusOps instructions.
FocusSpec == FocusInit /\ [][FocusNext]_vars

\* a linear focus step on a tab that is not in fullscreen and whose active
\* pane is one of its selectable panes
Walks(op) ==
    /\ last'.op = op
    /\ ~tab.fullscreen_is_active
    /\ tab.active_terminal # None
    /\ tab.active_terminal \subseteq get_selectable_panes(tab)

\* the element after a in the order O of the set S, wrapping around
Successor(S, a, O(_, _)) ==
    IF \E q \in S : O(a, q)
    THEN CHOOSE q \in S : O(a, q) /\ \A r \in S : O(a, r) => r = q \/ O(q, r)
    ELSE CHOOSE q \in S : \A r \in S : r = q \/ O(q, r)

ById(q, r) == q < r

ByIdBackwards(q, r) == r < q

ByPosition(q, r) ==
    \/ tab.panes[q].y < tab.panes[r].y
    \/ (tab.panes[q].y = tab.panes[r].y /\ tab.panes[q].x < tab.panes[r].x)

ByPositionBackwards(q, r) == ByPosition(r, q)

FocusGoesTo(O(_, _)) ==
    tab'.active_terminal =
        Some(Successor(get_selectable_panes(tab), Unwrap(tab.active_terminal), O))

ActiveIsSelectable ==
    Live(tab) => tab.active_terminal \subseteq get_selectable_panes(tab)

\* C17 as stated: focus next and focus previous visit the selectable panes
\* in pane id order, wrapping around, and never make a pane active that is
\* not selectable.
C17_AsStated ==
    [][/\ (Walks("focus_next_pane") => FocusGoesTo(ById))
       /\ (Walks("focus_previous_pane") => FocusGoesTo(ByIdBackwards))
       /\ (Walks("move_focus") => FocusGoesTo(ById))
       /\ ActiveIsSelectable']_vars

\* C17: focus_next_pane and focus_previous_pane visit the selectable panes
\* in the order of their position, top to bottom and then left to right,
\* wrapping around; move_focus visits them in pane id order, wrapping
\* around; none of them makes a pane active that is not selectable.
C17_LinearFocus ==
    [][/\ (Walks("focus_next_pane") => FocusGoesTo(ByPosition))
       /\ (Walks("focus_previous_pane") => FocusGoesTo(ByPositionBackwards))
       /\ (Walks("move_focus") => FocusGoesTo(ById))
       /\ ActiveIsSelectable']_vars

C17_Witness ==
    /\ last.op = "focus_next_pane"
    /\ DOMAIN tab.panes = {1, 2, 3}
    /\ ~tab.panes[2].selectable
    /\ tab.panes[3].y < tab.panes[2].y
    /\ last.before.active_terminal = Some(3)
    /\ tab.active_terminal = Some(1)

DirectionalNext ==
    /\ nops < MaxTabOps
    /\ \/ OpenHorizontalSplit
       \/ OpenVerticalSplit
       \/ SetSelectable
       \/ MoveFocusLeft
       \/ MoveFocusRight
       \/ MoveFocusDown
       \/ MoveFocusUp
    /\ nops' = nops + 1

\* Splitting the active pane, marking panes selectable or not and moving
\* the focus to a side, up to MaxTabOps instructions.
DirectionalSpec == FocusInit /\ [][DirectionalNext]_vars

\* the selectable panes directly on one side of the active pane that
\* overlap it
Candidates(t, Directly(_, _), Overlaps(_, _)) ==
    {q \in get_selectable_panes(t) :
        /\ Directly(t.panes[q], Unwrap(get_active_pane(t)))
        /\ Overlaps(t.panes[q], Unwrap(get_active_pane(t)))}

\* a step of op on a tab with an active pane and not in fullscreen makes
\* the candidate active that was stamped last, or leaves the active pane
\* alone when there is no candidate
Picks(op, Directly(_, _), Overlaps(_, _)) ==
    (last'.op = op /\ ~tab.fullscreen_is_active /\ get_active_pane(tab) # None) =>
        IF Candidates(tab, Directly, Overlaps) = {}
        THEN tab'.active_terminal = tab.active_terminal
        ELSE \E q \in Candidates(tab, Directly, Overlaps) :
                /\ tab'.active_terminal = Some(q)
                /\ \A r \in Candidates(tab, Directly, Overlaps) \ {q} :
                      tab.panes[r].active_at < tab.panes[q].active_at

\* a move that changed the active pane, followed by the opposite move
ThereAndBack(op, opposite) ==
    (last.op = op /\ last.before.active_terminal # tab.active_terminal
                  /\ last'.op = opposite) =>
        tab'.active_terminal = last.before.active_terminal

\* C18: a directional focus move makes active, among the selectable panes
\* directly on that side of the active pane that overlap it, the one that
\* was active last, and leaves the active pane alone when there is none;
\* a move followed by the opposite move returns to the pane it started
\* from.
C18_DirectionalFocus ==
    [][/\ Picks("move_focus_left", is_directly_left_of, horizontally_overlaps_with)
       /\ Picks("move_focus_right", is_directly_right_of, horizontally_overlaps_with)
       /\ Picks("move_focus_up", is_directly_above, vertically_overlaps_with)
       /\ Picks("move_focus_down", is_directly_below, vertically_overlaps_with)
       /\ ThereAndBack("move_focus_left", "move_focus_right")
       /\ ThereAndBack("move_focus_right", "move_focus_left")
       /\ ThereAndBack("move_focus_up", "move_focus_down")
       /\ ThereAndBack("move_focus_down", "move_focus_up")]_vars

(***************************************************************************)
(* Input: the WriteCharacter and ToggleActiveSyncTab instructions           *)
(* (screen.rs, tab.rs).                                                    *)
(***************************************************************************)

\* the letter a, and the left arrow key
InputBytes == {<<97>>, <<27, 91, 68>>}

\* what the pane id makes of the input before it reaches its terminal: the
\* rewriting depends on the modes of that pane's grid, so the result is
\* kept as the pair of the pane and the input
adjust_input_to_terminal(id, input_bytes) == [by |-> id, input |-> input_bytes]

get_active_pane_id(t) == t.active_terminal

write_to_tty_stdin(t, pid, buf) ==
    [t EXCEPT !.written_to_tty_stdin = Append(@, [pid |-> pid, buf |-> buf])]

write_to_pane_id(t, input_bytes, pane_id) ==
    IF t.fault # "none" THEN t
    ELSE IF pane_id \notin DOMAIN t.panes THEN Panic(t)
    ELSE write_to_tty_stdin(t, pane_id, adjust_input_to_terminal(pane_id, input_bytes))

write_to_active_terminal(t, input_bytes) ==
    IF get_active_pane_id(t) = None THEN Panic(t)
    ELSE write_to_pane_id(t, input_bytes, Unwrap(get_active_pane_id(t)))

RECURSIVE write_to_each(_, _, _)
write_to_each(t, input_bytes, pane_ids) ==
    IF pane_ids = {} THEN t
    ELSE LET pane_id == CHOOSE q \in pane_ids : \A r \in pane_ids : q <= r
         IN  write_to_each(write_to_pane_id(t, input_bytes, pane_id), input_bytes,
                           pane_ids \ {pane_id})

write_to_the_active_terminal_only(t, input_bytes) == write_to_active_terminal(t, input_bytes)

write_to_terminals_on_current_tab(t, input_bytes) ==
    write_to_each(t, input_bytes, get_pane_ids(t))

is_sync_panes_active(t) == t.synchronize_is_active

toggle_sync_panes_is_active(t) ==
    [t EXCEPT !.synchronize_is_active = ~t.synchronize_is_active]

WriteCharacter ==
    \E bytes \in InputBytes :
        Handle("write_character", Some(bytes),
               IF is_sync_panes_active(tab)
               THEN write_to_terminals_on_current_tab(tab, bytes)
               ELSE write_to_active_terminal(tab, bytes),
               IF ~is_sync_panes_active(tab) /\ get_active_pane_id(tab) = None
               THEN "panic" ELSE "written", 0)

ToggleActiveSyncTab ==
    Handle("toggle_sync_panes_is_active", None, toggle_sync_panes_is_active(tab), "done", 0)

WriteNext ==
    /\ nops < MaxFocusOps
    /\ \/ OpenNewPane
       \/ OpenVerticalSplit
       \/ SetSelectable
       \/ CloseAPane
       \/ SwitchFocus
       \/ ToggleActiveTerminalFullscreen
       \/ ToggleActiveSyncTab
       \/ WriteCharacter
    /\ nops' = nops + 1

\* Opening and closing panes, moving the focus, fullscreen, switching the
\* synchronised input on and off, and writing input, up to MaxFocusOps
\* instructions.
WriteSpec == FocusInit /\ [][WriteNext]_vars

\* what the step wrote to the terminals
Delivered == SubSeq(tab'.written_to_tty_stdin, Len(tab.written_to_tty_stdin) + 1,
                    Len(tab'.written_to_tty_stdin))

\* the input of the step as pane id receives it
AsReceivedBy(id) ==
    [pid |-> id, buf |-> adjust_input_to_terminal(id, Unwrap(last'.arg))]

\* C20: a WriteCharacter instruction on a tab with synchronised input
\* delivers the input once to every pane of the tab, each as adjusted by
\* that pane; on a tab without synchronised input it delivers the input
\* once to the active pane and to no other pane.
C20_WriteCharacter ==
    [][last'.op = "write_character" =>
        /\ is_sync_panes_active(tab) =>
              /\ Len(Delivered) = Cardinality(DOMAIN tab.panes)
              /\ \A q \in DOMAIN tab.panes :
                    \E i \in 1..Len(Delivered) : Delivered[i] = AsReceivedBy(q)
        /\ (~is_sync_panes_active(tab) /\ get_active_pane_id(tab) # None) =>
              Delivered = <<AsReceivedBy(Unwrap(get_active_pane_id(tab)))>>]_vars

\* a tab with synchronised input and a second pane, not the active one,
\* has received the input
C20_Witness ==
    /\ last.op = "write_character"
    /\ is_sync_panes_active(last.before)
    /\ Cardinality(DOMAIN last.before.panes) >= 2
    /\ Len(tab.written_to_tty_stdin) = Cardinality(DOMAIN last.before.panes)
    /\ \E i \in 1..Len(tab.written_to_tty_stdin) :
          Some(tab.written_to_tty_stdin[i].pid) # last.before.active_terminal

(***************************************************************************)
(* Screen: the tabs, the active tab and switching between tabs             *)
(* (screen.rs).  A tab of the screen is kept with its index and its        *)
(* position; the session is attached.                                      *)
(***************************************************************************)

\* Tab::new as Screen::new_tab calls it, with the first pane pane_id
Tab_new_at(index, at, pane_id, session_state) ==
    [index |-> index, position |-> at,
     tab |-> [Tab_new EXCEPT !.panes = [q \in {pane_id} |-> TerminalPane_new(full_screen_ws)],
                             !.active_terminal = Some(pane_id),
                             !.session_state = session_state]]

Screen_Panic(s) == IF s.fault = "none" THEN [s EXCEPT !.fault = "panic"] ELSE s

\* a recursion that never ends
Screen_Overflow(s) == IF s.fault = "none" THEN [s EXCEPT !.fault = "overflow"] ELSE s

get_active_tab(s) ==
    IF s.active_tab_index # None /\ Unwrap(s.active_tab_index) \in DOMAIN s.tabs
    THEN Some(s.tabs[Unwrap(s.active_tab_index)]) ELSE None

\* senders.send_to_server: the instruction joins the server's queue; a
\* screen thread that has panicked sends nothing
send_to_server(s, instruction) ==
    IF s.fault # "none" THEN s ELSE [s EXCEPT !.to_server = Append(@, instruction)]

\* the active tab after one of its own operations; the Render it sent is
\* in the server's queue when the operation returns, and a panic in the
\* tab is a panic of the screen thread
with_active_tab(s, t2) ==
    [s EXCEPT !.tabs[Unwrap(s.active_tab_index)].tab = [t2 EXCEPT !.rendered = FALSE],
              !.to_server = IF t2.rendered THEN Append(@, "Render") ELSE @,
              !.fault = IF t2.fault # "none" THEN t2.fault ELSE @]

get_active_tab_mut_unwrap(s, Op(_)) ==
    IF s.fault # "none" THEN s
    ELSE IF get_active_tab(s) = None THEN Screen_Panic(s)
    ELSE with_active_tab(s, Op(Unwrap(get_active_tab(s)).tab))

update_tabs(s) ==
    IF s.fault # "none" THEN s
    ELSE IF s.active_tab_index = None THEN Screen_Panic(s)
    ELSE s

get_new_tab_index(s) ==
    IF DOMAIN s.tabs = {} THEN 0
    ELSE 1 + CHOOSE i \in DOMAIN s.tabs : \A j \in DOMAIN s.tabs : j <= i

\* the first tab, in the order of the indices, at position new_tab_pos
tab_at_position(s, new_tab_pos) ==
    LET found == {i \in DOMAIN s.tabs : s.tabs[i].position = new_tab_pos}
    IN  IF found = {} THEN None
        ELSE Some(CHOOSE i \in found : \A j \in found : i <= j)

\* the frames the recursion of render, close_tab and switch_tab_prev can
\* take before it is back at the tab it started from
StackDepth(s) == Cardinality(DOMAIN s.tabs) + 1

RECURSIVE render_screen(_, _)
RECURSIVE close_tab(_, _)
RECURSIVE switch_tab_prev(_, _)

render_screen(s, depth) ==
    IF s.fault # "none" THEN s
    ELSE IF s.session_state # "Attached" THEN s
    ELSE IF get_active_tab(s) = None THEN s
    ELSE IF get_active_pane(Unwrap(get_active_tab(s)).tab) # None
    THEN with_active_tab(s, render(Unwrap(get_active_tab(s)).tab))
    ELSE close_tab(s, depth)

close_tab(s, depth) ==
    IF s.fault # "none" THEN s
    ELSE IF depth = 0 THEN Screen_Overflow(s)
    ELSE IF s.active_tab_index = None THEN Screen_Panic(s)
    ELSE LET active_tab_index == Unwrap(s.active_tab_index)
             remove(s1) ==
                 IF s1.fault # "none" THEN s1
                 ELSE IF active_tab_index \notin DOMAIN s1.tabs THEN Screen_Panic(s1)
                 ELSE IF DOMAIN s1.tabs = {active_tab_index}
                 THEN [s1 EXCEPT !.tabs = <<>>,
                                 !.active_tab_index = None,
                                 !.closed_tabs = Append(@, get_pane_ids(s1.tabs[active_tab_index].tab)),
                                 !.to_server = IF s1.session_state = "Attached"
                                               THEN Append(@, "RenderNone") ELSE @]
                 ELSE update_tabs(
                        [s1 EXCEPT !.tabs = [i \in DOMAIN s1.tabs \ {active_tab_index} |->
                                                [s1.tabs[i] EXCEPT !.position =
                                                    IF @ > s1.tabs[active_tab_index].position
                                                    THEN @ - 1 ELSE @]],
                                   !.closed_tabs = Append(@, get_pane_ids(s1.tabs[active_tab_index].tab))])
         IN  remove(IF Cardinality(DOMAIN s.tabs) > 1 THEN switch_tab_prev(s, depth - 1) ELSE s)

switch_tab_prev(s, depth) ==
    IF s.fault # "none" THEN s
    ELSE IF get_active_tab(s) = None THEN Screen_Panic(s)
    ELSE LET active_tab_pos == Unwrap(get_active_tab(s)).position
             new_tab_pos == IF active_tab_pos = 0 THEN Cardinality(DOMAIN s.tabs) - 1
                            ELSE active_tab_pos - 1
         IN  render_screen(update_tabs(
                 IF tab_at_position(s, new_tab_pos) = None THEN s
                 ELSE [s EXCEPT !.active_tab_index = tab_at_position(s, new_tab_pos)]), depth)

switch_tab_next(s, depth) ==
    IF s.fault # "none" THEN s
    ELSE IF get_active_tab(s) = None THEN Screen_Panic(s)
    ELSE LET active_tab_pos == Unwrap(get_active_tab(s)).position
             new_tab_pos == (active_tab_pos + 1) % Cardinality(DOMAIN s.tabs)
         IN  render_screen(update_tabs(
                 IF tab_at_position(s, new_tab_pos) = None THEN s
                 ELSE [s EXCEPT !.active_tab_index = tab_at_position(s, new_tab_pos)]), depth)

\* a new tab that takes position 0 whatever tabs there are
new_tab_at_the_front(s, pane_id) ==
    render_screen(update_tabs(
        [s EXCEPT !.active_tab_index = Some(get_new_tab_index(s)),
                  !.tabs = [i \in DOMAIN s.tabs \cup {get_new_tab_index(s)} |->
                               IF i = get_new_tab_index(s)
                               THEN Tab_new_at(i, 0, pane_id, s.session_state)
                               ELSE s.tabs[i]]]),
        StackDepth(s) + 1)

new_tab(s, pane_id) ==
    LET insert(tab_index, at) ==
            [s EXCEPT !.active_tab_index = Some(tab_index),
                      !.tabs = [i \in DOMAIN s.tabs \cup {tab_index} |->
                                   IF i = tab_index
                                   THEN Tab_new_at(tab_index, at, pane_id, s.session_state)
                                   ELSE s.tabs[i]]]
    IN  render_screen(update_tabs(insert(get_new_tab_index(s), Cardinality(DOMAIN s.tabs))),
                      StackDepth(s) + 1)

move_focus_left_or_previous_tab(s) ==
    IF get_active_tab(s) = None THEN Screen_Panic(s)
    ELSE LET or_previous_tab(s1) ==
                 IF ~move_focus_left(Unwrap(get_active_tab(s)).tab).moved
                 THEN switch_tab_prev(s1, StackDepth(s1)) ELSE s1
         IN  send_to_server(
                 or_previous_tab(with_active_tab(s, move_focus_left(Unwrap(get_active_tab(s)).tab).tab)),
                 "UnblockInputThread")

move_focus_right_or_next_tab(s) ==
    IF get_active_tab(s) = None THEN Screen_Panic(s)
    ELSE LET or_next_tab(s1) ==
                 IF ~move_focus_right(Unwrap(get_active_tab(s)).tab).moved
                 THEN switch_tab_next(s1, StackDepth(s1)) ELSE s1
         IN  send_to_server(
                 or_next_tab(with_active_tab(s, move_focus_right(Unwrap(get_active_tab(s)).tab).tab)),
                 "UnblockInputThread")

\* tab_index counts the tabs from 1
go_to_tab(s, tab_index) ==
    IF s.fault # "none" THEN s
    ELSE IF get_active_tab(s) = None THEN Screen_Panic(s)
    ELSE IF tab_at_position(s, tab_index - 1) # None
            /\ tab_at_position(s, tab_index - 1) # s.active_tab_index
    THEN render_screen(update_tabs(
             [s EXCEPT !.active_tab_index = tab_at_position(s, tab_index - 1)]), StackDepth(s))
    ELSE s

\* The arms of the loop of screen_thread_main, one for each instruction.
on_Render(s, arg) == render_screen(s, StackDepth(s))

on_NewPane(s, arg) ==
    LET open(t) == new_pane(t, Unwrap(arg))
    IN  send_to_server(get_active_tab_mut_unwrap(s, open), "UnblockInputThread")

on_HorizontalSplit(s, arg) ==
    LET open(t) == horizontal_split(t, Unwrap(arg))
    IN  send_to_server(get_active_tab_mut_unwrap(s, open), "UnblockInputThread")

on_VerticalSplit(s, arg) ==
    LET open(t) == vertical_split(t, Unwrap(arg))
    IN  send_to_server(get_active_tab_mut_unwrap(s, open), "UnblockInputThread")

on_ResizeLeft(s, arg) == get_active_tab_mut_unwrap(s, resize_left)

on_FocusNextPane(s, arg) == get_active_tab_mut_unwrap(s, focus_next_pane)

on_SetSelectable(s, arg) ==
    LET set(t) == set_pane_selectable(t, Unwrap(arg)[1], Unwrap(arg)[2])
    IN  get_active_tab_mut_unwrap(s, set)

on_ClosePane(s, arg) ==
    LET close(t) == close_pane(t, Unwrap(arg))
    IN  render_screen(get_active_tab_mut_unwrap(s, close), StackDepth(s))

on_NewTab(s, arg) == send_to_server(new_tab(s, Unwrap(arg)), "UnblockInputThread")

on_SwitchTabNext(s, arg) ==
    send_to_server(switch_tab_next(s, StackDepth(s)), "UnblockInputThread")

on_SwitchTabPrev(s, arg) ==
    send_to_server(switch_tab_prev(s, StackDepth(s)), "UnblockInputThread")

close_tab_unblocking_first(s, arg) ==
    close_tab(send_to_server(s, "UnblockInputThread"), StackDepth(s))

on_CloseTab(s, arg) == send_to_server(close_tab(s, StackDepth(s)), "UnblockInputThread")

on_GoToTab(s, arg) == send_to_server(go_to_tab(s, Unwrap(arg)), "UnblockInputThread")

on_MoveFocusLeftOrPreviousTab(s, arg) == move_focus_left_or_previous_tab(s)

on_MoveFocusRightOrNextTab(s, arg) == move_focus_right_or_next_tab(s)

\* what the pane's parser makes of the bytes, one after the other: a
\* character to print or a control byte to execute
Printed(c) == [print |-> c]

Executed(byte) == [execute |-> byte]

\* the pane's parser feeds the bytes to the pane's grid
RECURSIVE Pane_handle_pty_bytes(_, _)
Pane_handle_pty_bytes(g, bytes) ==
    IF bytes = <<>> THEN g
    ELSE Pane_handle_pty_bytes(
             IF "execute" \in DOMAIN Head(bytes) THEN execute(g, Head(bytes).execute)
             ELSE print(g, Head(bytes).print),
             Tail(bytes))

has_terminal_pid(t, pid) == pid \in DOMAIN t.panes

\* the grid of the pane: s.grids holds the grids that received bytes, any
\* other is as the pane was created with it
grid_of(s, pid) ==
    IF pid \in DOMAIN s.grids THEN s.grids[pid]
    ELSE Grid_new(grid_ws.rows, grid_ws.columns)

\* Tab::handle_pty_bytes on the tab at index i; the grids chosen here have
\* no message for the pty to drain
handle_pty_bytes(s, i, pid, bytes) ==
    IF ~has_terminal_pid(s.tabs[i].tab, pid) THEN s
    ELSE LET g2 == Pane_handle_pty_bytes(grid_of(s, pid), bytes)
         IN  IF Ok(g2)
             THEN [s EXCEPT !.grids = [p \in DOMAIN @ \cup {pid} |-> IF p = pid THEN g2 ELSE @[p]]]
             ELSE Screen_Panic(s)

on_PtyBytes(s, arg) ==
    LET pid == Unwrap(arg)[1]
        vte_bytes == Unwrap(arg)[2]
        owners == {i \in DOMAIN s.tabs : has_terminal_pid(s.tabs[i].tab, pid)}
        first_owner == CHOOSE i \in owners : \A j \in owners : i <= j
    IN  IF s.fault # "none" THEN s
        ELSE IF get_active_tab(s) = None THEN Screen_Panic(s)
        ELSE IF has_terminal_pid(Unwrap(get_active_tab(s)).tab, pid)
        THEN handle_pty_bytes(s, Unwrap(s.active_tab_index), pid, vte_bytes)
        ELSE IF owners # {} THEN handle_pty_bytes(s, first_owner, pid, vte_bytes)
        ELSE s

\* the client attaches or detaches: the session state is shared by the
\* screen and its tabs
set_session_state(s, session_state) ==
    [s EXCEPT !.session_state = session_state,
              !.tabs = [i \in DOMAIN s.tabs |->
                           [s.tabs[i] EXCEPT !.tab.session_state = session_state]]]

ScreenDo(op, arg, s2, opened) ==
    /\ screen.fault = "none"
    /\ screen' = s2
    /\ last' = Did(op, arg, screen, IF s2.fault = "none" THEN "done" ELSE s2.fault)
    /\ next_pid' = next_pid + opened
    /\ UNCHANGED <<tab, grid, session>>

\* the screen thread receives the instruction op and handles it in Arm
Instruct(op, arg, Arm(_, _), opened) == ScreenDo(op, arg, Arm(screen, arg), opened)

NewTab ==
    /\ next_pid <= MaxPid
    /\ Cardinality(DOMAIN screen.tabs) < MaxTabs
    /\ Instruct("new_tab", Some(next_pid), on_NewTab, 1)

CloseTab == Instruct("close_tab", None, on_CloseTab, 0)

VerticalSplitInTab ==
    /\ next_pid <= MaxPid
    /\ Instruct("vertical_split", Some(next_pid), on_VerticalSplit, 1)

SetSelectableInTab ==
    \E id \in 1..MaxPid, selectable \in BOOLEAN :
        /\ id < next_pid
        /\ Instruct("set_pane_selectable", Some(<<id, selectable>>), on_SetSelectable, 0)

MoveFocusLeftOrPreviousTab ==
    Instruct("move_focus_left_or_previous_tab", None, on_MoveFocusLeftOrPreviousTab, 0)

MoveFocusRightOrNextTab ==
    Instruct("move_focus_right_or_next_tab", None, on_MoveFocusRightOrNextTab, 0)

NewPaneInTab ==
    /\ next_pid <= MaxPid
    /\ Instruct("new_pane", Some(next_pid), on_NewPane, 1)

HorizontalSplitInTab ==
    /\ next_pid <= MaxPid
    /\ Instruct("horizontal_split", Some(next_pid), on_HorizontalSplit, 1)

ClosePaneInTab ==
    \E id \in 1..MaxPid :
        /\ id < next_pid
        /\ Instruct("close_pane", Some(id), on_ClosePane, 0)

ResizeLeftInTab == Instruct("resize_left", None, on_ResizeLeft, 0)

FocusNextPaneInTab == Instruct("focus_next_pane", None, on_FocusNextPane, 0)

SwitchTabNext == Instruct("switch_tab_next", None, on_SwitchTabNext, 0)

SwitchTabPrev == Instruct("switch_tab_prev", None, on_SwitchTabPrev, 0)

GoToTab == \E tab_index \in 1..MaxTabs : Instruct("go_to_tab", Some(tab_index), on_GoToTab, 0)

RenderInstruction == Instruct("render", None, on_Render, 0)

ClientDetaches ==
    /\ screen.session_state = "Attached"
    /\ ScreenDo("detach", None, set_session_state(screen, "Detached"), 0)

ClientAttaches ==
    /\ screen.session_state = "Detached"
    /\ ScreenDo("attach", None, set_session_state(screen, "Attached"), 0)

PtyInputs == {<<Printed("a")>>, <<Printed("W"), Executed(10)>>}

PtyBytes ==
    \E pid \in 1..MaxPid, vte_bytes \in PtyInputs :
        Instruct("pty_bytes", Some(<<pid, vte_bytes>>), on_PtyBytes, 0)

\* a screen as Screen::new makes it
ScreenInit ==
    /\ tab = Tab_new
    /\ next_pid = 1
    /\ last = Did("new", None, Screen_new, "done")
    /\ GridIdle
    /\ screen = Screen_new
    /\ session = NoSession

ScreenNext ==
    /\ nops < MaxFocusOps
    /\ \/ NewTab
       \/ CloseTab
       \/ VerticalSplitInTab
       \/ SetSelectableInTab
       \/ MoveFocusLeftOrPreviousTab
       \/ MoveFocusRightOrNextTab
    /\ nops' = nops + 1

\* Opening and closing tabs, splitting the active pane of the active tab,
\* marking its panes selectable or not and moving the focus to a side or
\* to the neighbouring tab, up to MaxFocusOps instructions.
ScreenSpec == ScreenInit /\ [][ScreenNext]_vars

\* the tabs of s at the position before (by = -1) or after (by = 1) the
\* active tab's, wrapping around
Neighbour(s, by) ==
    {i \in DOMAIN s.tabs :
        s.tabs[i].position =
            (Unwrap(get_active_tab(s)).position + Cardinality(DOMAIN s.tabs) + by)
                % Cardinality(DOMAIN s.tabs)}

\* a step of op that ends without a panic leaves the active tab alone when
\* the focus moved inside it, and makes the neighbouring tab active when
\* it did not
SwitchesIfStayed(op, Move(_), by) ==
    (last'.op = op /\ get_active_tab(screen) # None /\ screen'.fault = "none") =>
        IF Move(Unwrap(get_active_tab(screen)).tab).moved
        THEN screen'.active_tab_index = screen.active_tab_index
        ELSE \E i \in Neighbour(screen, by) : screen'.active_tab_index = Some(i)

\* C19: MoveFocusLeftOrPreviousTab makes the tab at the previous position
\* active, wrapping around, exactly when move_focus_left returned false,
\* and MoveFocusRightOrNextTab the tab at the next position exactly when
\* move_focus_right returned false; when the focus moved inside the tab
\* the active tab is unchanged.
C19_FocusOrTab ==
    [][/\ SwitchesIfStayed("move_focus_left_or_previous_tab", move_focus_left, -1)
       /\ SwitchesIfStayed("move_focus_right_or_next_tab", move_focus_right, 1)]_vars

(***************************************************************************)
(* The session state: instructions handled while the client is detached.   *)
(***************************************************************************)
SessionNext ==
    /\ nops < MaxFocusOps
    /\ \/ NewTab
       \/ VerticalSplitInTab
       \/ ClosePaneInTab
       \/ ResizeLeftInTab
       \/ FocusNextPaneInTab
       \/ SwitchTabNext
       \/ RenderInstruction
       \/ ClientDetaches
       \/ ClientAttaches
    /\ nops' = nops + 1

\* Opening tabs, splitting and closing panes, resizing, moving the focus,
\* switching tabs and rendering while the client attaches and detaches,
\* up to MaxFocusOps instructions.
SessionSpec == ScreenInit /\ [][SessionNext]_vars

\* what the step sent to the server
Sent == SubSeq(screen'.to_server, Len(screen.to_server) + 1, Len(screen'.to_server))

\* the tabs and panes of a screen without what rendering writes: the
\* session state, the messages to the server and the panes' active_at
Effects(s) ==
    [tabs |-> [i \in DOMAIN s.tabs |->
                  [index |-> s.tabs[i].index, position |-> s.tabs[i].position,
                   panes |-> [q \in DOMAIN s.tabs[i].tab.panes |->
                                 [s.tabs[i].tab.panes[q] EXCEPT !.active_at = 0]],
                   panes_to_hide |-> s.tabs[i].tab.panes_to_hide,
                   active_terminal |-> s.tabs[i].tab.active_terminal,
                   fullscreen_is_active |-> s.tabs[i].tab.fullscreen_is_active,
                   closed_ptys |-> s.tabs[i].tab.closed_ptys]],
     active_tab_index |-> s.active_tab_index,
     closed_tabs |-> s.closed_tabs,
     fault |-> s.fault]

\* a step of op on a detached screen sends no Render and leaves the tabs
\* and panes as the same instruction leaves them on the attached screen
AsWhenAttached(op, Arm(_, _)) ==
    (last'.op = op /\ screen.session_state = "Detached") =>
        /\ \A i \in 1..Len(Sent) : Sent[i] \notin {"Render", "RenderNone"}
        /\ Effects(screen') = Effects(Arm(set_session_state(screen, "Attached"), last'.arg))

\* C21: while the session is detached no instruction sends a Render to the
\* server, and what the instruction does to the tabs and panes is what it
\* does while the session is attached.
C21_DetachedRender ==
    [][/\ AsWhenAttached("new_tab", on_NewTab)
       /\ AsWhenAttached("vertical_split", on_VerticalSplit)
       /\ AsWhenAttached("close_pane", on_ClosePane)
       /\ AsWhenAttached("resize_left", on_ResizeLeft)
       /\ AsWhenAttached("focus_next_pane", on_FocusNextPane)
       /\ AsWhenAttached("switch_tab_next", on_SwitchTabNext)
       /\ AsWhenAttached("render", on_Render)]_vars

\* the instruction closes the one pane the active tab of s has
ClosesLastPane(s, op, arg) ==
    /\ op = "close_pane"
    /\ get_active_tab(s) # None
    /\ get_pane_ids(Unwrap(get_active_tab(s)).tab) = {Unwrap(arg)}

\* how many times the instruction occurs in what was sent
Count(sent, instruction) == Cardinality({i \in 1..Len(sent) : sent[i] = instruction})

TabRemoved ==
    LET active_tab_index == Unwrap(screen.active_tab_index)
    IN  /\ active_tab_index \notin DOMAIN screen'.tabs
        /\ screen'.closed_tabs = Append(screen.closed_tabs, {})
        /\ DOMAIN screen.tabs = {active_tab_index} =>
               /\ screen'.active_tab_index = None
               /\ Count(Sent, "RenderNone") = 1

\* C22: when ClosePane closes the last pane of the active tab, the tab is
\* removed from the screen and a CloseTab with the pane ids the tab has left
\* is sent to the pty thread; when the tab was the last one, the screen has
\* no active tab and exactly one Render(None) is sent to the server.
C22_LastPaneClosesTab ==
    [][ClosesLastPane(screen, last'.op, last'.arg) => TabRemoved]_vars

\* the same on an attached session only
LastPaneClosesTabWhenAttached ==
    [][(ClosesLastPane(screen, last'.op, last'.arg) /\ screen.session_state = "Attached")
            => TabRemoved]_vars

UnblockNext ==
    /\ nops < MaxFocusOps
    /\ \/ NewTab
       \/ NewPaneInTab
       \/ HorizontalSplitInTab
       \/ VerticalSplitInTab
       \/ ClosePaneInTab
       \/ SetSelectableInTab
       \/ SwitchTabNext
       \/ SwitchTabPrev
       \/ GoToTab
       \/ CloseTab
       \/ MoveFocusLeftOrPreviousTab
       \/ MoveFocusRightOrNextTab
       \/ ClientDetaches
       \/ ClientAttaches
    /\ nops' = nops + 1

\* The instructions of the client's blocking keystrokes on a screen whose
\* panes close and whose client attaches and detaches, up to MaxFocusOps
\* instructions.
UnblockSpec == ScreenInit /\ [][UnblockNext]_vars

\* the instructions the client's input thread waits on
Blocking ==
    {"new_pane", "horizontal_split", "vertical_split", "new_tab", "switch_tab_next",
     "switch_tab_prev", "close_tab", "go_to_tab", "move_focus_left_or_previous_tab",
     "move_focus_right_or_next_tab"}

\* the same, the instructions on which the screen thread panics included
UnblockAlways ==
    [][last'.op \in Blocking =>
          /\ Count(Sent, "UnblockInputThread") = 1
          /\ Sent[Len(Sent)] = "UnblockInputThread"]_vars

SentByLast == SubSeq(screen.to_server, Len(last.before.to_server) + 1, Len(screen.to_server))

C23_WitnessNoEffect ==
    /\ last.op = "go_to_tab"
    /\ last.outcome = "done"
    /\ SentByLast = <<"UnblockInputThread">>
    /\ [screen EXCEPT !.to_server = <<>>] = [last.before EXCEPT !.to_server = <<>>]

PtyNext ==
    /\ nops < MaxFocusOps
    /\ \/ NewTab
       \/ VerticalSplitInTab
       \/ ClosePaneInTab
       \/ SwitchTabNext
       \/ CloseTab
       \/ PtyBytes
    /\ nops' = nops + 1

\* Bytes of the ptys arriving at a screen whose tabs and panes open and
\* close, up to MaxFocusOps instructions.
PtySpec == ScreenInit /\ [][PtyNext]_vars

\* the tabs of s that own the pane of the fd
Owners(s, pid) == {i \in DOMAIN s.tabs : pid \in get_pane_ids(s.tabs[i].tab)}

Routed ==
    LET pid == Unwrap(last'.arg)[1]
        vte_bytes == Unwrap(last'.arg)[2]
    IN  IF Owners(screen, pid) = {} THEN screen' = screen
        ELSE /\ grid_of(screen', pid) = Pane_handle_pty_bytes(grid_of(screen, pid), vte_bytes)
             /\ \A other \in 1..MaxPid \ {pid} : grid_of(screen', other) = grid_of(screen, other)
             /\ [screen' EXCEPT !.grids = <<>>] = [screen EXCEPT !.grids = <<>>]

\* the grids after the bytes for p and then the bytes for q are the grids
\* after the bytes for q and then the bytes for p
Independent(s) ==
    \A p, q \in 1..MaxPid, for_p, for_q \in PtyInputs :
        p # q =>
            on_PtyBytes(on_PtyBytes(s, Some(<<p, for_p>>)), Some(<<q, for_q>>)).grids
                = on_PtyBytes(on_PtyBytes(s, Some(<<q, for_q>>)), Some(<<p, for_p>>)).grids

\* C24: PtyBytes(fd, bytes) is applied to the grid of the pane with that fd
\* in whichever tab owns it and changes no other grid, PtyBytes for an fd no
\* pane owns changes nothing at all, and PtyBytes for two distinct fds leave
\* the same grids in either order.
C24_PtyBytes ==
    [][/\ last'.op = "pty_bytes" => Routed
       /\ Independent(screen)]_vars

\* the same on a screen that has an active tab
PtyBytesWithActiveTab ==
    [][/\ (last'.op = "pty_bytes" /\ screen.active_tab_index # None) => Routed
       /\ Independent(screen)]_vars

(***************************************************************************)
(* The session: the server thread, the screen, pty and plugin threads it   *)
(* starts and the queues between them (lib.rs).                            *)
(***************************************************************************)
\* crossbeam::channel::bounded(50): a send waits while the queue holds 50
to_server_capacity == 50

\* the session after NewClient: init_session has started the three threads,
\* the screen has its first tab, the server thread is back at recv
Session_new ==
    [to_server |-> <<>>, to_screen |-> <<>>, to_pty |-> <<>>, to_plugin |-> <<>>,
     to_client |-> <<>>,
     server |-> "recv", screen_thread |-> "running", pty_thread |-> "running",
     wasm_thread |-> "running", client_exited |-> FALSE]

SessionDo(session2) ==
    /\ session # NoSession
    /\ session' = session2
    /\ UNCHANGED <<tab, next_pid, last, grid, nops, screen>>

\* what the arm sends to the server for the instruction
sent_by(Arm(_, _), arg) ==
    SubSeq(Arm(screen, arg).to_server, Len(screen.to_server) + 1, Len(Arm(screen, arg).to_server))

\* a pty, a plugin or the router sends ScreenInstruction::Render to the
\* screen thread; the queue is unbounded
SendRenderToScreen ==
    /\ Len(session.to_screen) < MaxBacklog
    /\ SessionDo([session EXCEPT !.to_screen = Append(@, "Render")])

\* the router sends ClientExit when the client leaves; it waits while the
\* server's queue is full
SendClientExit ==
    /\ ~session.client_exited
    /\ Len(session.to_server) < to_server_capacity
    /\ SessionDo([session EXCEPT !.to_server = Append(@, "ClientExit"),
                                 !.client_exited = TRUE])

\* Drop for SessionMetaData, its three sends
drop_sends(ss) ==
    [ss EXCEPT !.to_pty = Append(@, "Exit"),
               !.to_screen = Append(@, "Exit"),
               !.to_plugin = Append(@, "Exit")]

\* one step of the server thread: an arm of its loop, or one of the three
\* joins of the drop, which waits for its thread to end
ServerThread ==
    \/ /\ session.server = "recv"
       /\ session.to_server # <<>>
       /\ Head(session.to_server) = "ClientExit"
       /\ SessionDo([drop_sends(session) EXCEPT !.to_server = Tail(@),
                                                !.server = "join_screen"])
    \/ /\ session.server = "recv"
       /\ session.to_server # <<>>
       /\ Head(session.to_server) # "ClientExit"
       /\ SessionDo([session EXCEPT !.to_server = Tail(@),
                                    !.to_client = <<Head(session.to_server)>>])
    \/ /\ session.server = "join_screen"
       /\ session.screen_thread = "exited"
       /\ SessionDo([session EXCEPT !.server = "join_pty"])
    \/ /\ session.server = "join_pty"
       /\ session.pty_thread = "exited"
       /\ SessionDo([session EXCEPT !.server = "join_wasm"])
    \/ /\ session.server = "join_wasm"
       /\ session.wasm_thread = "exited"
       /\ SessionDo([session EXCEPT !.server = "done", !.to_client = <<"Exit">>])

\* one turn of the screen thread's loop: Exit breaks the loop, Render is
\* handled by its arm, whose sends wait while the server's queue is full
ScreenThread ==
    /\ session.screen_thread = "running"
    /\ session.to_screen # <<>>
    /\ \/ /\ Head(session.to_screen) = "Exit"
          /\ SessionDo([session EXCEPT !.to_screen = Tail(@), !.screen_thread = "exited"])
       \/ /\ Head(session.to_screen) = "Render"
          /\ Len(session.to_server) + Len(sent_by(on_Render, None)) <= to_server_capacity
          /\ SessionDo([session EXCEPT !.to_screen = Tail(@),
                                       !.to_server = @ \o sent_by(on_Render, None)])

\* the pty thread's loop ends at Exit
PtyThread ==
    /\ session.pty_thread = "running"
    /\ session.to_pty # <<>>
    /\ Head(session.to_pty) = "Exit"
    /\ SessionDo([session EXCEPT !.to_pty = Tail(@), !.pty_thread = "exited"])

\* the plugin thread's loop ends at Exit
WasmThread ==
    /\ session.wasm_thread = "running"
    /\ session.to_plugin # <<>>
    /\ Head(session.to_plugin) = "Exit"
    /\ SessionDo([session EXCEPT !.to_plugin = Tail(@), !.wasm_thread = "exited"])

\* a session whose screen has one tab with one pane
ShutdownInit ==
    /\ tab = Tab_new
    /\ next_pid = 2
    /\ last = Did("new", None, Screen_new, "done")
    /\ GridIdle
    /\ screen = [new_tab(Screen_new, 1) EXCEPT !.to_server = <<>>]
    /\ session = Session_new

ShutdownNext ==
    \/ SendRenderToScreen
    \/ SendClientExit
    \/ ServerThread
    \/ ScreenThread
    \/ PtyThread
    \/ WasmThread

\* A session that renders until its client leaves. Every thread that can
\* take a step gets to take it; the senders of Render and of ClientExit are
\* free not to send.
ShutdownSpec ==
    /\ ShutdownInit
    /\ [][ShutdownNext]_vars
    /\ WF_vars(ServerThread)
    /\ WF_vars(ScreenThread)
    /\ WF_vars(PtyThread)
    /\ WF_vars(WasmThread)

Dropping == session.server \in {"join_screen", "join_pty", "join_wasm"}

\* the drop sent Exit to the three loops
ExitSent ==
    (session.server # "recv") =>
        /\ session.pty_thread = "running" => session.to_pty = <<"Exit">>
        /\ session.wasm_thread = "running" => session.to_plugin = <<"Exit">>
        /\ session.screen_thread = "running" =>
               \E i \in 1..Len(session.to_screen) : session.to_screen[i] = "Exit"

\* the screen thread takes nothing from its queue once it has ended
StopsAtExit ==
    [][session.screen_thread = "exited" =>
          /\ Len(session'.to_screen) >= Len(session.to_screen)
          /\ session'.screen_thread = "exited"]_vars

\* C25: once the server thread handles ClientExit and drops the session,
\* Exit has been sent to the pty, screen and plugin loops and the three
\* joins eventually return, whatever the screen thread still has to send to
\* the server's queue.
C25_ShutdownCompletes ==
    /\ []ExitSent
    /\ Dropping ~> (session.server = "done")

(***************************************************************************)
(* The grid under resize, wrapping and scroll regions.                     *)
(***************************************************************************)
\* the first row of the viewport continues a line that is nowhere
CorruptViewport(g) ==
    /\ g.viewport # <<>>
    /\ ~g.viewport[1].is_canonical
    /\ g.lines_above = <<>>

\* C26: a resize that changes the width of a grid whose first viewport row
\* is not canonical while lines_above is empty leaves the grid as it was:
\* viewport, scrollback, cursor, width and height.
C26_CorruptViewportResize ==
    [][(last'.op = "resize" /\ last'.arg[2] # grid.width /\ CorruptViewport(grid))
          => grid' = grid]_vars

\* the cursor is in the pending-wrap column of a wrapping grid
PendingWrap(g) == Ok(g) /\ g.cursor.x = g.width /\ ~g.disable_linewrap

EndsWith(columns, suffix) ==
    /\ Len(columns) >= Len(suffix)
    /\ SubSeq(columns, Len(columns) - Len(suffix) + 1, Len(columns)) = suffix

\* the top row of the viewport of g is the end of the scrollback of g2
Promoted(g, g2) ==
    /\ g2.lines_above # <<>>
    /\ EndsWith(g2.lines_above[Len(g2.lines_above)].columns, g.viewport[1].columns)

\* the character c printed on g in PendingWrap wrapped to the next row; in a
\* viewport of one row the row before it is the one promoted
Wrapped(g, c, g2) ==
    /\ IF g.cursor.y = g.height - 1
       THEN /\ Promoted(g, g2)
            /\ Len(g2.viewport) = g.height
            /\ g2.cursor.y = g.cursor.y
       ELSE /\ g2.cursor.y = g.cursor.y + 1
            /\ g2.lines_above = g.lines_above
    /\ Len(g2.viewport) > g2.cursor.y
    /\ cursor_row(g2).columns # <<>>
    /\ cursor_row(g2).columns[1] = c
    /\ ~cursor_row(g2).is_canonical
    /\ g2.cursor.y > 0 => g2.viewport[g2.cursor.y] = cursor_row(g)
    /\ g2.cursor.x = char_width(c)

\* C27: a character printed while the cursor is in the pending-wrap column
\* of a grid with auto-wrap wraps first: on the last line of the viewport
\* the top row goes to the scrollback and the viewport keeps height rows,
\* elsewhere the cursor moves down one row; the character is in column 0 of
\* a non-canonical row, the row before it is unchanged and the cursor is at
\* the character's width.
C27_PendingWrap ==
    [][(last'.op = "print" /\ PendingWrap(grid)) => Wrapped(grid, last'.arg, grid')]_vars

\* the same where the wrap makes the row: on the last line of the viewport
\* and on the last row the viewport has
WrapOntoNewRow ==
    [][(last'.op = "print" /\ PendingWrap(grid)
        /\ (grid.cursor.y = grid.height - 1 \/ Len(grid.viewport) = grid.cursor.y + 1))
           => Wrapped(grid, last'.arg, grid')]_vars

\* the logical lines of the scrollback followed by the viewport, one cell
\* sequence per line: a non-canonical row continues the line before it
LogicalLines(g) ==
    FoldSeq(LAMBDA acc, row :
                IF row.is_canonical \/ acc = <<>>
                THEN Append(acc, row.columns)
                ELSE [acc EXCEPT ![Len(acc)] = @ \o row.columns],
            <<>>, g.lines_above \o g.viewport)

\* the logical lines that have rows in the viewport
ViewportLines(g) ==
    LET lines == LogicalLines(g)
        starts == Cardinality({i \in 1..Len(g.viewport) : g.viewport[i].is_canonical})
        count == IF g.viewport # <<>> /\ ~g.viewport[1].is_canonical THEN starts + 1
                 ELSE starts
    IN  SubSeq(lines, Len(lines) - count + 1, Len(lines))

\* the lines of the viewport of g are the last lines of g2, short of those
\* a full scrollback dropped
SameLines(g, g2) ==
    IF Len(g2.lines_above) < SCROLL_BACK
    THEN EndsWith(LogicalLines(g2), ViewportLines(g))
    ELSE \/ EndsWith(LogicalLines(g2), ViewportLines(g))
         \/ EndsWith(ViewportLines(g), LogicalLines(g2))

\* every row of the viewport is at most new_columns wide, and the first one
\* is canonical or continues the scrollback
LaidOut(g2, new_columns) ==
    /\ \A i \in 1..Len(g2.viewport) : Row_width(g2.viewport[i]) <= new_columns
    /\ g2.viewport # <<>> => (g2.viewport[1].is_canonical \/ g2.lines_above # <<>>)

WidthChanges == last'.op = "resize" /\ last'.arg[2] # grid.width /\ Ok(grid) /\ Ok(grid')

\* C28: after a resize to new_columns every logical line is laid out in
\* consecutive rows at most new_columns wide, wide cells whole, the first row
\* of a line canonical and the rows after it non-canonical: the lines are
\* the lines the grid had.
C28_Reflow ==
    [][WidthChanges => (LaidOut(grid', last'.arg[2]) /\ SameLines(grid, grid'))]_vars

\* the same for a viewport that is not corrupt and has no empty line
ReflowOfSoundViewport ==
    [][(/\ WidthChanges
        /\ ~CorruptViewport(grid)
        /\ \A i \in 1..Len(ViewportLines(grid)) : ViewportLines(grid)[i] # <<>>)
          => (LaidOut(grid', last'.arg[2]) /\ SameLines(grid, grid'))]_vars

\* the size of the pane in RegionSpec: three rows, so that a scroll region
\* can leave a row out
region_ws == [rows |-> 3, columns |-> 2]

RegionInit == TabIdle /\ GridStart(region_ws.rows, region_ws.columns)

RegionDo(op, arg, g2) ==
    /\ Ok(grid)
    /\ nops < MaxRegionOps
    /\ grid' = g2
    /\ nops' = nops + 1
    /\ last' = [last EXCEPT !.op = op, !.arg = arg, !.before = grid]
    /\ UNCHANGED <<tab, next_pid, screen, session>>

RegionPrint == RegionDo("print", "a", print(grid, "a"))

RegionNewline == RegionDo("execute", 10, execute(grid, 10))

RegionCsi ==
    \E q \in {Csi("r", <<2, 3>>, ""), Csi("r", <<1, 2>>, ""), Csi("H", <<>>, ""),
              Csi("A", <<>>, ""), Csi("B", <<>>, "")} :
        RegionDo("csi", q, csi_dispatch(grid, q.params, q.intermediate, q.c))

RegionNext ==
    \/ RegionPrint
    \/ RegionNewline
    \/ RegionCsi

\* Printing, newlines, scroll regions and cursor movement on the grid of a
\* 3x2 pane, up to MaxRegionOps steps.
RegionSpec == RegionInit /\ [][RegionNext]_vars

\* the cursor of g is on the bottom line of its scroll region
AtRegionBottom(g) ==
    /\ Ok(g)
    /\ g.scroll_region # None
    /\ g.cursor.y = Unwrap(g.scroll_region)[2]

\* the cells of the row at line y, its trailing empty cells left out; a row
\* the viewport has not made yet is an empty row
CellsAt(g, y) ==
    IF y < Len(g.viewport) THEN strip_trailing_empty_cells(g.viewport[y + 1].columns)
    ELSE <<>>

\* the newline on g scrolled the region only
RegionScrolled(g, g2) ==
    LET top == Unwrap(g.scroll_region)[1]
        bottom == Unwrap(g.scroll_region)[2]
        rows == Len(g.viewport)
    IN  /\ Len(g2.viewport) = rows
        /\ g2.lines_above = g.lines_above
        /\ g2.cursor.y = bottom
        /\ \A y \in 0..Max(rows - 1, bottom) :
              /\ (y < top \/ y > bottom) => g2.viewport[y + 1] = g.viewport[y + 1]
              /\ (top <= y /\ y < bottom) => CellsAt(g2, y) = CellsAt(g, y + 1)
              /\ (top <= y /\ y < bottom /\ y + 1 < rows) => g2.viewport[y + 1] = g.viewport[y + 2]
              /\ y = bottom => CellsAt(g2, y) = <<>>

\* C29: a newline with the cursor on the bottom line of the scroll region
\* scrolls the region only: its rows move up by one and an empty row comes
\* in at its bottom, the rows outside the region, the number of rows of the
\* viewport and the scrollback are unchanged, and the cursor stays on the
\* bottom line of the region.
C29_RegionNewline ==
    [][(last'.op = "execute" /\ last'.arg = 10 /\ AtRegionBottom(grid))
          => RegionScrolled(grid, grid')]_vars

\* a newline at the bottom of the region of lines 1 and 2 moved the "a" of
\* line 2 up to line 1 and left the "a" of line 0 where it was
C29_Witness ==
    /\ last.op = "execute"
    /\ last.arg = 10
    /\ AtRegionBottom(last.before)
    /\ last.before.scroll_region = Some(<<1, 2>>)
    /\ Len(last.before.viewport) = 3
    /\ CellsAt(last.before, 0) = <<"a">>
    /\ CellsAt(last.before, 1) = <<>>
    /\ CellsAt(last.before, 2) = <<"a">>
    /\ CellsAt(grid, 0) = <<"a">>
    /\ CellsAt(grid, 1) = <<"a">>
    /\ CellsAt(grid, 2) = <<>>

(***************************************************************************)
(* Resizing the active pane of a split tab.                                *)
(***************************************************************************)
GrowDown ==
    Handle("resize_down", None, resize_down(tab), ResizeOutcome(tab, resize_down(tab)), 0)

GrowUp ==
    Handle("resize_up", None, resize_up(tab), ResizeOutcome(tab, resize_up(tab)), 0)

TileNext ==
    /\ nops < MaxTabOps
    /\ \/ OpenHorizontalSplit
       \/ OpenVerticalSplit
       \/ FocusNextPane
       \/ GrowLeft
       \/ GrowRight
       \/ GrowUp
       \/ GrowDown
    /\ nops' = nops + 1

\* Splitting panes, walking the focus and resizing the active pane in the
\* four directions, up to MaxTabOps instructions.
TileSpec == FocusInit /\ [][TileNext]_vars

Resizes == {"resize_left", "resize_right", "resize_up", "resize_down"}

\* between t and t2 one stretch of a vertical border moved by d columns:
\* the panes that changed end at the border or start right after it
MovedVerticalBorder(t, t2, d) ==
    \E border \in 0..full_screen_ws.columns :
        \A q \in DOMAIN t.panes :
            LET p == t.panes[q]
                p2 == t2.panes[q]
            IN  \/ position_and_size(p2) = position_and_size(p)
                \/ /\ p.x + p.columns = border
                   /\ p2.x = p.x /\ p2.columns = p.columns + d
                   /\ p2.y = p.y /\ p2.rows = p.rows
                \/ /\ p.x = border + 1
                   /\ p2.x = p.x + d /\ p2.columns = p.columns - d
                   /\ p2.y = p.y /\ p2.rows = p.rows

MovedHorizontalBorder(t, t2, d) ==
    \E border \in 0..full_screen_ws.rows :
        \A q \in DOMAIN t.panes :
            LET p == t.panes[q]
                p2 == t2.panes[q]
            IN  \/ position_and_size(p2) = position_and_size(p)
                \/ /\ p.y + p.rows = border
                   /\ p2.y = p.y /\ p2.rows = p.rows + d
                   /\ p2.x = p.x /\ p2.columns = p.columns
                \/ /\ p.y = border + 1
                   /\ p2.y = p.y + d /\ p2.rows = p.rows - d
                   /\ p2.x = p.x /\ p2.columns = p.columns

\* the resize moved one border of the active pane by the step
MovedByStep(t, op, t2) ==
    /\ DOMAIN t2.panes = DOMAIN t.panes
    /\ position_and_size(t2.panes[Unwrap(t.active_terminal)])
           # position_and_size(t.panes[Unwrap(t.active_terminal)])
    /\ CASE op = "resize_right" -> MovedVerticalBorder(t, t2, ResizeColumns)
         [] op = "resize_left" -> MovedVerticalBorder(t, t2, 0 - ResizeColumns)
         [] op = "resize_down" -> MovedHorizontalBorder(t, t2, ResizeRows)
         [] op = "resize_up" -> MovedHorizontalBorder(t, t2, 0 - ResizeRows)

\* C30: after splits and resizes of the active pane in any direction the
\* panes do not overlap and tile the screen with their one-cell borders: a
\* resize that changes the layout moves one border of the active pane and
\* of the panes aligned with it by the step, and the panes on the other
\* side of the border absorb it.
C30_ResizeKeepsTiling ==
    [][(last'.op \in Resizes /\ Tiles(tab)) =>
          /\ tab'.fault = "none"
          /\ Tiles(tab')
          /\ last'.outcome = "resized" => MovedByStep(tab, last'.op, tab')]_vars

\* the same for the resizes that take no pane below zero
ResizeWithoutUnderflow ==
    [][(last'.op \in Resizes /\ Tiles(tab) /\ tab'.fault = "none") =>
          /\ Tiles(tab')
          /\ last'.outcome = "resized" => MovedByStep(tab, last'.op, tab')]_vars

(***************************************************************************)
(* The grid resized to narrow widths, the alternate screen, the cursor     *)
(* under resize, scrolling by the user and the rows of the scrollback.     *)
(***************************************************************************)
\* the widths include one column, narrower than a wide character
NarrowSizes == {<<2, 1>>, <<2, 2>>, <<2, 4>>, <<1, 1>>}

NarrowNext ==
    \/ PerformPrint(Characters)
    \/ Execute({10})
    \/ ChangeSize(NarrowSizes)

\* Text with wide characters in a 2x3 pane that is resized down to one column.
NarrowSpec == PaneInit /\ [][NarrowNext]_vars

\* the row holds a character wider than the columns
HasWiderThan(row, columns) ==
    \E i \in 1..Len(row.columns) : char_width(row.columns[i]) > columns

\* C31: a resize terminates for every grid content and every target width
\* new_columns >= 1, also when a line holds a wide character and new_columns
\* is smaller than the character's width.
C31_ResizeTerminates ==
    [][(last'.op = "resize" /\ last'.arg[2] >= 1) => grid'.fault # "hang"]_vars

\* the resize terminates when no row of the viewport holds a character wider
\* than the target width
ResizeTerminatesWhenCharactersFit ==
    [][(/\ last'.op = "resize"
        /\ \A i \in 1..Len(grid.viewport) : ~HasWiderThan(grid.viewport[i], last'.arg[2]))
            => grid'.fault # "hang"]_vars

\* the alternate screen is active: the primary buffers are saved
AlternateActive(g) == g.alternative_lines_above_viewport_and_cursor # None

\* Text in a 2x3 pane, then the alternate screen, resizes while it is
\* active, and the way back to the primary screen.
AlternateNext ==
    \/ ~AlternateActive(grid) /\ last.resizes = 0 /\ PerformPrint(Characters)
    \/ ~AlternateActive(grid) /\ last.resizes = 0 /\ Execute({10, 13})
    \/ ~AlternateActive(grid) /\ last.resizes = 0 /\ CsiDispatch({EnterAlternateScreen})
    \/ AlternateActive(grid) /\ PerformPrint(Characters)
    \/ AlternateActive(grid) /\ ChangeSize(Sizes)
    \/ AlternateActive(grid) /\ CsiDispatch({LeaveAlternateScreen})

AlternateSpec == PaneInit /\ [][AlternateNext]_vars

\* the viewport and the cursor fit the grid's height and width
FitsGeometry(g) ==
    /\ Len(g.viewport) <= g.height
    /\ \A i \in 1..Len(g.viewport) : Row_width(g.viewport[i]) <= g.width
    /\ g.cursor.y < g.height
    /\ g.cursor.x <= g.width

\* the primary screen fits its geometry until the alternate screen is entered
PrimaryFits == (~AlternateActive(grid) /\ last.resizes = 0 /\ Ok(grid)) => FitsGeometry(grid)

\* the last step left the alternate screen
LeftAlternate == last.op = "csi" /\ last.arg = LeaveAlternateScreen /\ AlternateActive(last.before)

\* C32: if the grid is resized while the alternate screen is active, then on
\* leaving the alternate screen the restored viewport has at most `height`
\* rows, each at most `width` wide, and the restored cursor is within bounds.
C32_LeaveAfterResize ==
    (LeftAlternate /\ last.resizes > 0 /\ Ok(grid)) => FitsGeometry(grid)

\* leaving the alternate screen restores the saved buffers as they were saved
LeaveRestoresSaved ==
    (LeftAlternate /\ Ok(grid)) =>
        LET saved == Unwrap(last.before.alternative_lines_above_viewport_and_cursor)
        IN  /\ grid.lines_above = saved[1]
            /\ grid.viewport = saved[2]
            /\ grid.cursor = saved[3]

\* the viewport row (from 1) at which the cursor's logical line starts
LineStart(g) ==
    LET canonical_rows == {i \in 1..(g.cursor.y + 1) : g.viewport[i].is_canonical}
    IN  IF canonical_rows = {} THEN 1
        ELSE CHOOSE i \in canonical_rows : \A j \in canonical_rows : j <= i

RECURSIVE WidthOfRows(_, _, _)
WidthOfRows(rows, from, to) ==
    IF from > to THEN 0 ELSE Row_width(rows[from]) + WidthOfRows(rows, from + 1, to)

\* the cursor's offset in display columns from the start of its logical line
LineOffset(g) == WidthOfRows(g.viewport, LineStart(g), g.cursor.y) + g.cursor.x

\* the logical lines that start below the cursor's row
LinesBelowCursor(g) ==
    Cardinality({i \in (g.cursor.y + 2)..Len(g.viewport) : g.viewport[i].is_canonical})

SameCursorInLine(g, g2) ==
    /\ cursor_row_exists(g2)
    /\ LinesBelowCursor(g2) = LinesBelowCursor(g)
    /\ LineOffset(g2) = LineOffset(g)

\* a resize that changes the width and keeps the height, of a grid whose
\* cursor is on a row of a viewport that starts with a canonical row
ReflowsCursorLine ==
    /\ WidthChanges
    /\ last'.arg[1] = grid.height
    /\ cursor_row_exists(grid)
    /\ grid.viewport[1].is_canonical

\* C33: a resize that changes the width keeps the cursor on the same logical
\* line and at the same offset from the start of that line, on whichever
\* wrapped row of the line the cursor is.
C33_CursorInLine ==
    [][ReflowsCursorLine => SameCursorInLine(grid, grid')]_vars

\* the same for a cursor on the first row of a line that wraps neither
\* before nor after the resize, left of the new width
CursorInUnwrappedLine ==
    [][(/\ ReflowsCursorLine
        /\ cursor_row(grid).is_canonical
        /\ grid.cursor.x < last'.arg[2]
        /\ \A i \in 1..Len(grid.viewport) :
              /\ grid.viewport[i].is_canonical
              /\ Row_width(grid.viewport[i]) <= last'.arg[2])
            => SameCursorInLine(grid, grid')]_vars

\* the grid before the run of scrolling steps that the step being taken
\* continues, or the grid itself
RunBefore == IF last.op \in {"scroll_up", "scroll_down", "reset_viewport"} THEN last.run ELSE grid

\* One step on a grid the user scrolls.  `up` is the count of the
\* scroll_up this step is, or that it directly follows (0 otherwise),
\* origin is the grid before that scroll_up, and run is the grid before the
\* first of the scrolling steps that this step continues.
ViewDo(op, arg, g2, up, origin) ==
    /\ Ok(grid)
    /\ nops < MaxScrollOps
    /\ grid' = g2
    /\ nops' = nops + 1
    /\ last' = [op |-> op, arg |-> arg, before |-> grid, resizes |-> 0,
                first_resize |-> <<scroll_ws.rows, scroll_ws.columns>>,
                origin |-> origin, up |-> up, run |-> RunBefore]
    /\ UNCHANGED <<tab, next_pid, screen, session>>

\* the count of the scroll_up that the step being taken follows
UpBefore == IF last.op = "scroll_up" THEN last.up ELSE 0

OriginBefore == IF last.op = "scroll_up" THEN last.origin ELSE grid

ScrollCounts == 1..2

ViewPrint == \E c \in {"a", "W"} : ViewDo("print", c, print(grid, c), 0, grid)

ViewNewline == ViewDo("execute", 10, execute(grid, 10), 0, grid)

ViewResize ==
    \E size \in {<<2, 2>>, <<1, 3>>} :
        ViewDo("resize", size, change_size(grid, size[1], size[2]), 0, grid)

ScrollUpBy == \E n \in ScrollCounts : ViewDo("scroll_up", n, move_viewport_up(grid, n), n, grid)

ScrollDownBy ==
    \E n \in ScrollCounts :
        ViewDo("scroll_down", n, move_viewport_down(grid, n), UpBefore, OriginBefore)

ResetViewport ==
    ViewDo("reset_viewport", None, reset_viewport(grid), UpBefore, OriginBefore)

ViewNext ==
    \/ ViewPrint
    \/ ViewNewline
    \/ ViewResize
    \/ ScrollUpBy
    \/ ScrollDownBy
    \/ ResetViewport

\* Text and resizes in a 1x2 pane whose user scrolls up, down and back.
ViewSpec == ScrollbackInit /\ [][ViewNext]_vars

RECURSIVE CellsOf(_)
CellsOf(rows) == IF rows = <<>> THEN 0 ELSE Len(Head(rows).columns) + CellsOf(Tail(rows))

TotalCells(g) == CellsOf(g.lines_above) + CellsOf(g.viewport) + CellsOf(g.lines_below)

ScrollOps == {"scroll_up", "scroll_down", "reset_viewport"}

\* the last step undid a scroll_up(n) of a grid that was not scrolled:
\* reset_viewport, or scroll_down with the same n
ScrolledBack ==
    /\ last.op \in {"scroll_down", "reset_viewport"}
    /\ last.up > 0
    /\ last.op = "scroll_down" => last.arg = last.up
    /\ last.origin.lines_below = <<>>

C34_WitnessWrapped ==
    /\ ScrolledBack
    /\ last.op = "scroll_down"
    /\ last.before.lines_below # <<>>
    /\ ~grid.viewport[1].is_canonical

\* C35: in every grid reached by input and resizes each logical line of
\* lines_above is one row: every row of lines_above is canonical.
C35_ScrollbackCanonical ==
    Ok(grid) => \A i \in 1..Len(grid.lines_above) : grid.lines_above[i].is_canonical

AllCanonical(rows) == \A i \in 1..Len(rows) : rows[i].is_canonical

\* a step keeps the scrollback's rows canonical when the viewport it starts
\* from has a canonical first row
CanonicalFromSoundViewport ==
    [][(/\ Ok(grid) /\ Ok(grid')
        /\ AllCanonical(grid.lines_above)
        /\ grid.viewport # <<>> /\ grid.viewport[1].is_canonical)
            => AllCanonical(grid'.lines_above)]_vars

(***************************************************************************)
(* The active pane of a tab, the tabs of the screen, max_panes and the     *)
(* panes of the tabs that are not active.                                  *)
(***************************************************************************)
ActiveNext ==
    /\ nops < MaxFocusOps
    /\ \/ OpenNewPane
       \/ OpenHorizontalSplit
       \/ OpenVerticalSplit
       \/ GrowLeft
       \/ GrowRight
       \/ GrowUp
       \/ GrowDown
       \/ FocusNextPane
       \/ FocusPreviousPane
       \/ MoveFocusLeft
       \/ MoveFocusRight
       \/ MoveFocusDown
       \/ MoveFocusUp
       \/ SetSelectable
       \/ CloseAPane
    /\ nops' = nops + 1

\* Splits, resizes, focus moves, marking panes selectable or not and closing
\* panes, up to MaxFocusOps instructions.
ActiveSpec == FocusInit /\ [][ActiveNext]_vars

\* C36: while the tab contains a pane, its active pane id is set and is the
\* id of a pane of the tab; closing the active pane never leaves the id of
\* the removed pane behind while other panes remain.
C36_ActivePane ==
    (Live(tab) /\ DOMAIN tab.panes # {}) =>
        /\ tab.active_terminal # None
        /\ tab.active_terminal \subseteq DOMAIN tab.panes

\* the active pane id, when set, is the id of a pane of the tab
ActiveIsPresent ==
    (Live(tab) /\ DOMAIN tab.panes # {}) => tab.active_terminal \subseteq DOMAIN tab.panes

\* the active pane id is set while the tab has a selectable pane
ActiveWhileSelectable ==
    (Live(tab) /\ get_selectable_panes(tab) # {}) => tab.active_terminal # None

TabsNext ==
    /\ nops < MaxFocusOps
    /\ \/ NewTab
       \/ VerticalSplitInTab
       \/ ClosePaneInTab
       \/ SwitchTabNext
       \/ SwitchTabPrev
       \/ GoToTab
       \/ CloseTab
    /\ nops' = nops + 1

\* Opening, switching and closing tabs, splitting and closing their panes,
\* up to MaxFocusOps instructions.
TabsSpec == ScreenInit /\ [][TabsNext]_vars

Positions(s) == {s.tabs[i].position : i \in DOMAIN s.tabs}

\* C37: whenever the screen has a tab, its active tab index is the index of
\* one of its tabs and the positions of the tabs are exactly 0..n-1, without
\* duplicates or gaps.
C37_TabsInOrder ==
    (screen.fault = "none" /\ DOMAIN screen.tabs # {}) =>
        /\ screen.active_tab_index # None
        /\ screen.active_tab_index \subseteq DOMAIN screen.tabs
        /\ Positions(screen) = 0..(Cardinality(DOMAIN screen.tabs) - 1)

\* the active tab or its last pane was closed with a tab before it and a
\* tab after it: the tabs that remain have moved up
C37_Witness ==
    /\ screen.fault = "none"
    /\ last.op \in {"close_tab", "close_pane"}
    /\ Cardinality(DOMAIN last.before.tabs) = 3
    /\ Cardinality(DOMAIN screen.tabs) = 2
    /\ last.before.tabs[Unwrap(last.before.active_tab_index)].position = 1
    /\ \E i \in DOMAIN screen.tabs : screen.tabs[i].position # last.before.tabs[i].position

\* the tab of a screen that was started with max_panes = n
MaxPanesInit ==
    /\ \E n \in 1..MaxPaneLimit : tab = [Tab_new EXCEPT !.max_panes = Some(n)]
    /\ next_pid = 2
    /\ last = Did("new", Some(1), Tab_new, "first")
    /\ GridIdle
    /\ ScreenIdle

MaxPanesNext ==
    /\ nops < MaxTabOps
    /\ \/ OpenNewPane
       \/ OpenHorizontalSplit
       \/ OpenVerticalSplit
       \/ FocusNextPane
       \/ FocusPreviousPane
    /\ nops' = nops + 1

\* Opening panes and moving the focus in a tab with max_panes, up to
\* MaxTabOps instructions.
MaxPanesSpec == MaxPanesInit /\ [][MaxPanesNext]_vars

Opens == {"new_pane", "horizontal_split", "vertical_split"}

\* the panes of t beyond the first n - 1 in the order of their ids
BeyondMax(t) ==
    {id \in DOMAIN t.panes :
        Cardinality({q \in DOMAIN t.panes : q < id}) >= Unwrap(t.max_panes) - 1}

\* what the step sent to the pty thread
ClosedByStep(t, t2) == SubSeq(t2.closed_ptys, Len(t.closed_ptys) + 1, Len(t2.closed_ptys))

TabsWith(s, id) == {i \in DOMAIN s.tabs : id \in DOMAIN s.tabs[i].tab.panes}

\* the pane sets, the geometry of the panes and the active panes of the tabs
Layout(s) ==
    [i \in DOMAIN s.tabs |->
        [panes |-> [q \in DOMAIN s.tabs[i].tab.panes |->
                       position_and_size(s.tabs[i].tab.panes[q])],
         active_terminal |-> s.tabs[i].tab.active_terminal]]

\* the step handles ClosePane(id) for a pane of a tab that is not active
ClosesPaneElsewhere ==
    /\ last'.op = "close_pane"
    /\ TabsWith(screen, Unwrap(last'.arg)) # {}
    /\ screen.active_tab_index \cap TabsWith(screen, Unwrap(last'.arg)) = {}

\* C39: ClosePane(id) for a pane of a tab other than the active tab changes
\* no tab's pane set, geometry or active pane: the pane stays in its tab.
C39_ClosePaneElsewhere ==
    [][ClosesPaneElsewhere =>
          /\ screen'.fault = "none"
          /\ Layout(screen') = Layout(screen)]_vars

\* the same on a screen whose active tab has an active pane
ClosePaneElsewhereWithActivePane ==
    [][(/\ ClosesPaneElsewhere
        /\ get_active_tab(screen) # None
        /\ get_active_pane(Unwrap(get_active_tab(screen)).tab) # None)
            => /\ screen'.fault = "none"
               /\ Layout(screen') = Layout(screen)]_vars

====
